---- MODULE Spec2Model ----
(***************************************************************************)
(* A model of the Tencent provider of autok3s                              *)
(* (pkg/providers/tencent/tencent.go): the async-task wait, the instance   *)
(* launch, the floating-address pairing, and the Create / Rollback /       *)
(* Delete workflows, against an abstract cloud provider whose answers are  *)
(* nondeterministic.                                                       *)
(***************************************************************************)
EXTENDS Integers, Sequences, FiniteSets, TLC

\* ------------------------------------------------------------------ bounds
\* common.Backoff.Steps: the attempt budget of the waits.
MaxAttempts == 3
\* The largest --master count of an invocation.
MaxMaster == 1
\* The most instances one invocation asks for, both roles together.
MaxNodes == 3
\* The largest --worker count of an invocation: what the masters leave.
MaxWorker == MaxNodes - MaxMaster
\* The most instances (each with its floating address when floating IPs are
\* enabled) the cluster owns before the invocation starts.
MaxExisting == 1
\* The most tagged instances, and the most tagged floating addresses, of a
\* cluster that Delete is run on.
MaxTagged == 2
\* The most provider calls (or local steps) that fail in one invocation.
MaxFaults == 1
\* The most networks, and the most subnets, that carry the default name and
\* the autok3s tag before configNetwork runs.
MaxVpcs == 2
MaxSubnets == 2
\* The most instances that carry the cluster's tags in a listing.
MaxListed == 45

\* ------------------------------------------------------------- strings
\* A string is a sequence of one-character strings, so that strings.ToUpper
\* is computed character by character.
LowerChars == <<"a", "c", "d", "e", "f", "g", "i", "l", "n", "o", "r", "s", "u">>
UpperChars == <<"A", "C", "D", "E", "F", "G", "I", "L", "N", "O", "R", "S", "U">>

ToUpperChar(c) ==
  IF \E i \in 1..Len(LowerChars) : LowerChars[i] = c
  THEN UpperChars[CHOOSE i \in 1..Len(LowerChars) : LowerChars[i] = c]
  ELSE c

\* strings.ToUpper
ToUpper(s) == [i \in 1..Len(s) |-> ToUpperChar(s[i])]

\* strings.EqualFold on the letters of the tags and of the resource kinds:
\* equal after folding case.
FoldLower == <<"a", "c", "e", "i", "k", "m", "n", "o", "p", "r", "s", "t", "u", "v", "w">>
FoldUpper == <<"A", "C", "E", "I", "K", "M", "N", "O", "P", "R", "S", "T", "U", "V", "W">>

FoldChar(c) ==
  IF \E i \in 1..Len(FoldUpper) : FoldUpper[i] = c
  THEN FoldLower[CHOOSE i \in 1..Len(FoldUpper) : FoldUpper[i] = c]
  ELSE c

EqualFold(a, b) ==
  Len(a) = Len(b) /\ \A i \in 1..Len(a) : FoldChar(a[i]) = FoldChar(b[i])

\* tencent.Running, tencent.Success, tencent.Failed (pkg/types/tencent)
Running == <<"R", "U", "N", "N", "I", "N", "G">>
Success == <<"S", "U", "C", "C", "E", "S", "S">>
Failed == <<"F", "A", "I", "L", "E", "D">>

\* The Result strings a DescribeTaskResult response may carry.
TaskResults ==
  { Running, Success, Failed,
    <<"r", "u", "n", "n", "i", "n", "g">>, <<"R", "u", "n", "n", "i", "n", "g">>,
    <<"s", "u", "c", "c", "e", "s", "s">>, <<"S", "u", "c", "c", "e", "s", "s">>,
    <<"f", "a", "i", "l", "e", "d">>, <<"F", "a", "i", "l", "e", "d">>,
    <<"D", "O", "N", "E">>, <<>> }

\* One answer of p.v.DescribeTaskResult: an API error, or a response.
TaskAnswers ==
  {[err |-> TRUE, Result |-> <<>>]} \cup {[err |-> FALSE, Result |-> r] : r \in TaskResults}

\* ------------------------------------------------------------ TaskWaiter
\* The condition function handed to wait.ExponentialBackoff by
\* describeVpcTaskResult: (done, err) for one poll.
TaskConditionErrorIsTerminal(answer) ==
  IF answer.err THEN [done |-> FALSE, err |-> TRUE]
  ELSE LET r == ToUpper(answer.Result) IN
    IF r = Running THEN [done |-> FALSE, err |-> FALSE]
    ELSE IF r = Success THEN [done |-> TRUE, err |-> FALSE]
    ELSE IF r = Failed THEN [done |-> TRUE, err |-> TRUE]
    ELSE [done |-> TRUE, err |-> FALSE]

TaskConditionCaseSensitive(answer) ==
  IF answer.err THEN [done |-> FALSE, err |-> FALSE]
  ELSE IF answer.Result = Running THEN [done |-> FALSE, err |-> FALSE]
  ELSE IF answer.Result = Success THEN [done |-> TRUE, err |-> FALSE]
  ELSE IF answer.Result = Failed THEN [done |-> TRUE, err |-> TRUE]
  ELSE [done |-> TRUE, err |-> FALSE]

TaskCondition(answer) ==
  IF answer.err THEN [done |-> FALSE, err |-> FALSE]
  ELSE LET r == ToUpper(answer.Result) IN
    IF r = Running THEN [done |-> FALSE, err |-> FALSE]
    ELSE IF r = Success THEN [done |-> TRUE, err |-> FALSE]
    ELSE IF r = Failed THEN [done |-> TRUE, err |-> TRUE]
    ELSE [done |-> TRUE, err |-> FALSE]

\* wait.ExponentialBackoff(backoff, condition) with backoff.Steps = steps:
\* conds[i] is what the i-th call of the condition returns; n calls were made
\* so far.  The result is the number of calls made and how the wait ended.
RECURSIVE ExponentialBackoff(_, _, _)
ExponentialBackoff(steps, conds, n) ==
  IF steps <= 0 THEN [calls |-> n, result |-> "timeout"]
  ELSE LET c == conds[n + 1] IN
    IF c.err THEN [calls |-> n + 1, result |-> "failed"]
    ELSE IF c.done THEN [calls |-> n + 1, result |-> "ok"]
    ELSE IF steps = 1 THEN [calls |-> n + 1, result |-> "timeout"]
    ELSE ExponentialBackoff(steps - 1, conds, n + 1)

\* describeVpcTaskResult(taskID) against a task whose successive polls are
\* answered by script[1], script[2], ...
describeVpcTaskResult(script) ==
  ExponentialBackoff(MaxAttempts, [i \in 1..Len(script) |-> TaskCondition(script[i])], 0)


\* ---------------------------------------------------------------- helpers
SeqToSet(s) == {s[i] : i \in 1..Len(s)}

\* One answer of p.c.DescribeInstancesStatus for two instances: an API error,
\* a response with an empty InstanceStatusSet, or the state of each.
StatusAnswers ==
  {[err |-> TRUE, InstanceStatusSet |-> <<>>], [err |-> FALSE, InstanceStatusSet |-> <<>>]}
  \cup {[err |-> FALSE,
         InstanceStatusSet |-> <<[InstanceId |-> 1, InstanceState |-> a],
                                 [InstanceId |-> 2, InstanceState |-> b]>>] :
          a \in {"PENDING", "RUNNING"}, b \in {"PENDING", "RUNNING"}}

\* The condition function handed to wait.ExponentialBackoff by
\* getInstanceStatus: (done, err) for one poll.
StatusConditionEmptyIsDone(answer, aimStatus) ==
  IF answer.err THEN [done |-> FALSE, err |-> FALSE]
  ELSE [done |-> \A i \in 1..Len(answer.InstanceStatusSet) :
                    answer.InstanceStatusSet[i].InstanceState = aimStatus,
        err |-> FALSE]

StatusCondition(answer, aimStatus) ==
  IF answer.err \/ Len(answer.InstanceStatusSet) <= 0 THEN [done |-> FALSE, err |-> FALSE]
  ELSE [done |-> \A i \in 1..Len(answer.InstanceStatusSet) :
                    answer.InstanceStatusSet[i].InstanceState = aimStatus,
        err |-> FALSE]

\* getInstanceStatus(aimStatus) for instances whose successive polls are
\* answered by script[1], script[2], ...
getInstanceStatus(script, aimStatus) ==
  ExponentialBackoff(MaxAttempts,
                     [i \in 1..Len(script) |-> StatusCondition(script[i], aimStatus)], 0)

\* The orders in which a Range over the keys S may visit them.
Perms(S) ==
  {f \in [1..Cardinality(S) -> S] : \A i, j \in 1..Cardinality(S) : i # j => f[i] # f[j]}

\* The keys S in ascending order.
RECURSIVE Ascending(_)
Ascending(S) ==
  IF S = {} THEN <<>>
  ELSE LET x == CHOOSE y \in S : \A z \in S : y <= z IN <<x>> \o Ascending(S \ {x})

\* One provider call (or one wait on a task) as the log records it.
Call(op, ids, arg, master, task, res) ==
  [op |-> op, ids |-> ids, arg |-> arg, master |-> master, task |-> task, res |-> res]

\* ------------------------------------------------------------ NodeRegistry
\* tencent.StatusPending, tencent.StatusRunning (pkg/types/tencent)
StatusPending == "PENDING"
StatusRunning == "RUNNING"

\* types.Node, with the fields the provider reads and writes.
\* PublicIPNil tells a nil PublicIPAddress slice from an empty one.
Node(id, master, rollBack, status) ==
  [InstanceID |-> id, Master |-> master, RollBack |-> rollBack, Current |-> FALSE,
   InstanceStatus |-> status, PublicIPNil |-> TRUE, PublicIPAddress |-> <<>>,
   EipAllocationIds |-> <<>>]

\* p.m.Store(id, node)
Store(reg, id, node) ==
  [x \in (DOMAIN reg) \cup {id} |-> IF x = id THEN node ELSE reg[x]]

\* ------------------------------------------------------ InstanceProvisioner
\* The node runInstances stores for a returned id.
LaunchedNodeNotEligible(id, master) == Node(id, master, FALSE, StatusPending)

LaunchedNode(id, master) == Node(id, master, TRUE, StatusPending)

StoreLaunchedFirstOnly(reg, idSet, master) ==
  IF idSet = <<>> THEN reg
  ELSE Store(reg, Head(idSet), LaunchedNode(Head(idSet), master))

\* The loop of runInstances over response.InstanceIdSet.
RECURSIVE StoreLaunched(_, _, _)
StoreLaunched(reg, idSet, master) ==
  IF idSet = <<>> THEN reg
  ELSE StoreLaunched(Store(reg, Head(idSet), LaunchedNode(Head(idSet), master)),
                     Tail(idSet), master)

\* runInstances(num, master, _) from the RunInstances response on: the error
\* it returns and the registry it leaves.
runInstancesAcceptsPartial(reg, num, master, response) ==
  IF response.err
  THEN [err |-> TRUE, m |-> reg]
  ELSE [err |-> FALSE, m |-> StoreLaunched(reg, response.InstanceIdSet, master)]

runInstances(reg, num, master, response) ==
  IF response.err \/ Len(response.InstanceIdSet) # num
  THEN [err |-> TRUE, m |-> reg]
  ELSE [err |-> FALSE, m |-> StoreLaunched(reg, response.InstanceIdSet, master)]

\* ---------------------------------------------------------------- EIPManager
\* The Range callback of allocateEIPForInstance over the nodes still to visit
\* (order), with the addresses not yet handed out (eipAddresses): fails is the
\* set of instances for which AssociateAddress returns an error, task the last
\* task id the provider handed out.  Gives the registry, the task ids
\* collected, the calls made and whether an index ran out of range.
RECURSIVE PairRange(_, _, _, _, _, _)
PairRange(reg, order, eipAddresses, master, fails, task) ==
  IF order = <<>>
  THEN [m |-> reg, eipIds |-> <<>>, calls |-> <<>>, panic |-> FALSE]
  ELSE LET v == reg[Head(order)] IN
    IF v.Master = master /\ v.PublicIPNil
    THEN IF eipAddresses = <<>>
         THEN [m |-> reg, eipIds |-> <<>>, calls |-> <<>>, panic |-> TRUE]
         ELSE LET a == Head(eipAddresses)
                  failed == v.InstanceID \in fails
                  c == Call("AssociateAddress", {a}, v.InstanceID, master,
                            IF failed THEN 0 ELSE task + 1, IF failed THEN "err" ELSE "ok")
              IN IF failed
                 THEN [m |-> reg, eipIds |-> <<>>, calls |-> <<c>>, panic |-> FALSE]
                 ELSE LET w == [v EXCEPT !.EipAllocationIds = Append(@, a),
                                         !.PublicIPAddress = Append(@, a),
                                         !.PublicIPNil = FALSE]
                          rest == PairRange(Store(reg, v.InstanceID, w), Tail(order),
                                            Tail(eipAddresses), master, fails, task + 1)
                      IN [m |-> rest.m, eipIds |-> <<task + 1>> \o rest.eipIds,
                          calls |-> <<c>> \o rest.calls, panic |-> rest.panic]
    ELSE PairRange(reg, Tail(order), eipAddresses, master, fails, task)

VARIABLES
  taskPc,      \* "idle" before describeVpcTaskResult is called, "returned" after
  taskScript,  \* the provider's answers to the successive polls of the task
  taskCalls,   \* the number of DescribeTaskResult calls the wait made
  taskResult,  \* "none" | "ok" | "failed" | "timeout"
  cfg,         \* the invocation: op, master, worker, eip, force
  pc,          \* the position of the running workflow
  m,           \* p.m, the node registry: instance id -> types.Node
  cloudInst,   \* the provider's tagged instances: id -> [master, state]
  cloudEip,    \* the provider's tagged floating addresses: id -> [inst] (0: unbound)
  ctr,         \* the last instance, address and task id the provider handed out
  calls,       \* the provider calls issued so far, in order
  loc,         \* the local variables of the running workflow
  ret,         \* what Create, Rollback and Delete returned ("none": not yet)
  hist,        \* what Create did: the ids of the launch batches it accepted,
               \* and the floating addresses it allocated
  faults,      \* the failures injected in the running invocation
  ErrWaitTimeout,  \* wait.ErrWaitTimeout, the package-level error the waits overwrite
  timeoutErr,  \* the last timeout a wait returned: the wait, and the error it returned
  net,         \* configNetwork: the provider's networks and subnets, p.VpcID, p.SubnetID
  syn,         \* assembly and cluster sync: instances and tags, p.m, the node lists
  chk,         \* CreateCheck / joinCheck: the options read, the remembered node lists
  pager,       \* describeInstances: the tagged instances, the pages asked for, the list
  sg           \* configSecurityGroup: the provider's group and rules, the options read

taskVars == <<taskPc, taskScript, taskCalls, taskResult>>
mainVars == <<cfg, pc, m, cloudInst, cloudEip, ctr, calls, loc, ret, hist, faults>>
errVars == <<ErrWaitTimeout, timeoutErr>>
\* The variables no step of Create, Join, Rollback or Delete touches.
idleVars == <<taskVars, net, sg, chk, syn, pager>>
vars == <<taskVars, mainVars, errVars, net, sg, chk, syn, pager>>

\* The context a wait writes into wait.ErrWaitTimeout before it starts: the
\* wait, and its own instance ids or task id (the region and the zone are the
\* same for every wait of an invocation).
WaitCtx(wait, ids, task) == [wait |-> wait, ids |-> ids, task |-> task]

\* wait.ErrWaitTimeout as the library sets it.
NoCtx == WaitCtx("none", {}, 0)

\* wait.ErrWaitTimeout = fmt.Errorf(...): the value of the variable after
\* the assignment.
ErrWaitTimeoutKept(old, ctx) == old

ErrWaitTimeoutSet(old, ctx) == ctx

NoTimeout == [wait |-> NoCtx, err |-> NoCtx]

ErrIdle ==
  /\ ErrWaitTimeout = NoCtx
  /\ timeoutErr = NoTimeout

NetIdle == net = [pc |-> "off"]

SgIdle == sg = [pc |-> "off"]

ChkIdle == chk = [pc |-> "off"]

SynIdle == syn = [pc |-> "off"]

PagerIdle == pager = [pc |-> "off"]

\* A wait with context ctx assigns wait.ErrWaitTimeout, runs
\* wait.ExponentialBackoff, and ends with result; a wait that exhausts its
\* attempts returns wait.ErrWaitTimeout as it is then.
WaitEnds(ctx, result) ==
  /\ ErrWaitTimeout' = ErrWaitTimeoutSet(ErrWaitTimeout, ctx)
  /\ timeoutErr' = IF result = "timeout"
                   THEN [wait |-> ctx, err |-> ErrWaitTimeout']
                   ELSE timeoutErr

TaskIdle ==
  /\ taskPc = "off"
  /\ taskScript = <<>>
  /\ taskCalls = 0
  /\ taskResult = "none"

MainIdle ==
  /\ cfg = [op |-> "none"]
  /\ pc = "off"
  /\ m = <<>>
  /\ cloudInst = <<>>
  /\ cloudEip = <<>>
  /\ ctr = [inst |-> 0, eip |-> 0, task |-> 0]
  /\ calls = <<>>
  /\ loc = <<>>
  /\ ret = [create |-> "none", rollback |-> "none", delete |-> "none"]
  /\ hist = [launched |-> {}, allocated |-> {}]
  /\ faults = 0

TaskInit ==
  /\ \/ taskPc = "idle" /\ taskScript \in [1..MaxAttempts -> TaskAnswers]
     \/ taskPc = "status" /\ taskScript \in [1..MaxAttempts -> StatusAnswers]
  /\ taskCalls = 0
  /\ taskResult = "none"
  /\ MainIdle
  /\ ErrIdle
  /\ NetIdle
  /\ SgIdle
  /\ ChkIdle
  /\ SynIdle
  /\ PagerIdle

DescribeVpcTaskResult ==
  /\ taskPc = "idle"
  /\ LET r == describeVpcTaskResult(taskScript) IN
       /\ taskCalls' = r.calls
       /\ taskResult' = r.result
       /\ WaitEnds(WaitCtx("describeVpcTaskResult", {}, 1), r.result)
  /\ taskPc' = "returned"
  /\ UNCHANGED <<taskScript, mainVars, net, sg, chk, syn, pager>>

\* getInstanceStatus, as one step, against the scripted answers.
GetInstanceStatus ==
  /\ taskPc = "status"
  /\ LET r == getInstanceStatus(taskScript, "RUNNING") IN
       /\ taskCalls' = r.calls
       /\ taskResult' = r.result
       /\ WaitEnds(WaitCtx("getInstanceStatus", {1, 2}, 0), r.result)
  /\ taskPc' = "status_returned"
  /\ UNCHANGED <<taskScript, mainVars, net, sg, chk, syn, pager>>

TaskNext == DescribeVpcTaskResult \/ GetInstanceStatus

SpecTask == TaskInit /\ [][TaskNext]_vars

\* ------------------------------------------------------------ the provider
\* Whether a call may still fail in this invocation.
CanFault == faults < MaxFaults

\* The outcomes of a call that either succeeds or fails.
Outcomes == {TRUE} \cup (IF CanFault THEN {FALSE} ELSE {})

\* The answers a task gives to the polls of a wait inside a workflow.
WorkflowScripts ==
  [1..MaxAttempts -> {[err |-> FALSE, Result |-> r] : r \in {Running, Success, Failed}}]

\* How describeVpcTaskResult may end on those answers.
WorkflowResults == {describeVpcTaskResult(script).result : script \in WorkflowScripts}

\* How a describeVpcTaskResult inside a workflow may end.
WaitOutcomes == {r \in WorkflowResults : r = "ok" \/ CanFault}

\* The floating addresses the provider reports as bound to an instance.
BoundTo(eips, id) == Ascending({a \in DOMAIN eips : eips[a].inst = id})

\* PublicIpAddresses of an instance: its bound floating addresses, else the
\* address assigned at launch (PublicIpAssigned is !PublicIPAssignedEIP).
PublicIps(eips, id, eipFlag) ==
  IF BoundTo(eips, id) # <<>> THEN BoundTo(eips, id)
  ELSE IF eipFlag THEN <<>> ELSE <<0 - id>>

LocInit ==
  [role |-> TRUE, polls |-> 0, eips |-> <<>>, task |-> 0, eipTaskIds |-> <<>>, i |-> 0,
   ids |-> {}, eipIds |-> <<>>, taskIds |-> <<>>, tries |-> 0, tagErr |-> FALSE,
   rows |-> <<>>]

\* ------------------------------------------------- Create and Join: Init
\* CreateK3sCluster on a cluster name that owns nothing yet (CreateCheck), or
\* JoinK3sNode on a cluster that owns instances (joinCheck).
CreateInit ==
  /\ TaskIdle
  /\ ErrIdle
  /\ NetIdle
  /\ SgIdle
  /\ ChkIdle
  /\ SynIdle
  /\ PagerIdle
  /\ cfg \in {c \in [op : {"create", "join"}, master : 0..MaxMaster, worker : 0..MaxWorker,
                     eip : BOOLEAN, force : {FALSE}] :
                /\ c.op = "create" => c.master >= 1
                /\ c.op = "join" => c.master + c.worker >= 1
                /\ c.master + c.worker <= MaxNodes}
  /\ \E e \in 0..MaxExisting :
       /\ (cfg.op = "create") = (e = 0)
       /\ cloudInst = [i \in 1..e |-> [master |-> i = 1, state |-> StatusRunning]]
       /\ cloudEip = IF cfg.eip THEN [a \in 1..e |-> [inst |-> a]] ELSE <<>>
       /\ ctr = [inst |-> e, eip |-> IF cfg.eip THEN e ELSE 0, task |-> 0]
  /\ pc = "gi_network"
  /\ m = <<>>
  /\ calls = <<>>
  /\ loc = LocInit
  /\ ret = [create |-> "none", rollback |-> "none", delete |-> "none"]
  /\ hist = [launched |-> {}, allocated |-> {}]
  /\ faults = 0

\* generateInstance returns an error, and so does CreateK3sCluster/JoinK3sNode.
FailCreate ==
  /\ pc' = "failed"
  /\ ret' = [ret EXCEPT !.create = "error"]

\* ----------------------------------------------- generateInstance: network
\* configNetwork, run when no VpcID was supplied: it succeeds or fails.
ConfigNetwork ==
  /\ pc = "gi_network"
  /\ \E supplied \in BOOLEAN :
       IF supplied
       THEN pc' = "gi_secgroup" /\ UNCHANGED <<calls, faults, ret>>
       ELSE \E ok \in Outcomes :
              /\ calls' = Append(calls, Call("ConfigNetwork", {}, 0, FALSE, 0,
                                             IF ok THEN "ok" ELSE "err"))
              /\ faults' = IF ok THEN faults ELSE faults + 1
              /\ IF ok THEN pc' = "gi_secgroup" /\ UNCHANGED ret ELSE FailCreate
  /\ UNCHANGED <<cfg, m, cloudInst, cloudEip, ctr, loc, hist, idleVars, errVars>>

\* configSecurityGroup, run when no SecurityGroupIds were supplied.
ConfigSecurityGroup ==
  /\ pc = "gi_secgroup"
  /\ \E supplied \in BOOLEAN :
       IF supplied
       THEN pc' = "gi_masters" /\ UNCHANGED <<calls, faults, ret>>
       ELSE \E ok \in Outcomes :
              /\ calls' = Append(calls, Call("ConfigSecurityGroup", {}, 0, FALSE, 0,
                                             IF ok THEN "ok" ELSE "err"))
              /\ faults' = IF ok THEN faults ELSE faults + 1
              /\ IF ok THEN pc' = "gi_masters" /\ UNCHANGED ret ELSE FailCreate
  /\ UNCHANGED <<cfg, m, cloudInst, cloudEip, ctr, loc, hist, idleVars, errVars>>

\* ------------------------------------------------ generateInstance: launch
\* What RunInstances may answer to a request for num instances: an error, or
\* the ids of the instances it created, as many as requested or not.
RunInstancesAnswers(num) ==
  {[err |-> FALSE, n |-> num]} \cup
  (IF CanFault
   THEN {[err |-> TRUE, n |-> 0]} \cup {[err |-> FALSE, n |-> k] : k \in (0..(num + 1)) \ {num}}
   ELSE {})

RunInstancesStep(master) ==
  /\ pc = IF master THEN "gi_masters" ELSE "gi_workers"
  /\ LET num == IF master THEN cfg.master ELSE cfg.worker
         nextPc == IF master THEN "gi_workers" ELSE "gi_wait" IN
       IF num = 0
       THEN pc' = nextPc /\ UNCHANGED <<m, cloudInst, ctr, calls, faults, ret, hist>>
       ELSE \E o \in RunInstancesAnswers(num) :
              LET idSet == [i \in 1..o.n |-> ctr.inst + i]
                  r == runInstances(m, num, master, [err |-> o.err, InstanceIdSet |-> idSet])
              IN /\ cloudInst' = [i \in (DOMAIN cloudInst) \cup SeqToSet(idSet) |->
                                    IF i \in DOMAIN cloudInst THEN cloudInst[i]
                                    ELSE [master |-> master, state |-> StatusPending]]
                 /\ ctr' = [ctr EXCEPT !.inst = @ + o.n]
                 /\ m' = r.m
                 /\ calls' = Append(calls, Call("RunInstances", SeqToSet(idSet), num, master, 0,
                                                IF o.err THEN "err" ELSE "ok"))
                 /\ faults' = IF o.err \/ o.n # num THEN faults + 1 ELSE faults
                 /\ hist' = IF r.err THEN hist
                            ELSE [hist EXCEPT !.launched = @ \cup SeqToSet(idSet)]
                 /\ IF r.err THEN FailCreate ELSE pc' = nextPc /\ UNCHANGED ret
  /\ UNCHANGED <<cfg, cloudEip, loc, idleVars, errVars>>

\* ------------------------------------------ generateInstance: convergence
\* What one DescribeInstancesStatus poll of getInstanceStatus(StatusRunning)
\* may do, by the callback's return value and the ids whose status it stored.
\* An error or an empty status set: not done, nothing stored.  A status set
\* in which some instance is not at the aim: not done, and the instances at
\* the aim that come before it in the set are stored (any subset of the
\* running ones, by the order of the set).  A status set whose instances are
\* all at the aim: done, and all of them are stored; the set holds every
\* instance asked for, or (the request sets no Limit, and the provider pages
\* its answers) only the first ones of them.
StatusPolls(ids) ==
  {[done |-> FALSE, stored |-> u, partial |-> FALSE] : u \in (SUBSET ids) \ {ids}}
  \cup {[done |-> TRUE, stored |-> ids, partial |-> FALSE]}
  \cup {[done |-> TRUE, stored |-> {i \in ids : i <= k}, partial |-> TRUE] :
          k \in {j \in ids : \E i \in ids : i > j}}

\* getInstanceStatus: one poll of the wait, and its return.
GetInstanceStatusPoll ==
  /\ pc = "gi_wait"
  /\ IF DOMAIN m = {}
     THEN pc' = "eip_alloc" /\ UNCHANGED <<m, cloudInst, calls, loc, ret, faults, errVars>>
     ELSE \E a \in StatusPolls(DOMAIN m) :
            /\ a.partial => CanFault
            /\ WaitEnds(WaitCtx("getInstanceStatus", DOMAIN m, 0),
                        IF a.done THEN "ok"
                        ELSE IF loc.polls + 1 >= MaxAttempts THEN "timeout" ELSE "running")
            /\ faults' = IF a.partial THEN faults + 1 ELSE faults
            /\ m' = [i \in DOMAIN m |->
                       IF i \in a.stored THEN [m[i] EXCEPT !.InstanceStatus = StatusRunning]
                       ELSE m[i]]
            /\ IF a.done
               THEN /\ pc' = "eip_alloc"
                    /\ loc' = [loc EXCEPT !.polls = 0]
                    /\ cloudInst' = [i \in DOMAIN cloudInst |->
                                       IF i \in a.stored
                                       THEN [cloudInst[i] EXCEPT !.state = StatusRunning]
                                       ELSE cloudInst[i]]
                    /\ calls' = Append(calls, Call("WaitInstances", DOMAIN m, 0, FALSE, 0, "ok"))
                    /\ UNCHANGED ret
               ELSE IF loc.polls + 1 >= MaxAttempts
               THEN /\ FailCreate
                    /\ loc' = [loc EXCEPT !.polls = 0]
                    /\ calls' = Append(calls, Call("WaitInstances", DOMAIN m, 0, FALSE, 0,
                                                   "timeout"))
                    /\ UNCHANGED cloudInst
               ELSE /\ loc' = [loc EXCEPT !.polls = @ + 1]
                    /\ UNCHANGED <<pc, calls, ret, cloudInst>>
  /\ UNCHANGED <<cfg, cloudEip, ctr, hist, idleVars>>

\* ---------------------------------- generateInstance: floating addresses
\* After the addresses of one role: the other role, or the association tasks.
AfterEipRole ==
  IF loc.role THEN "eip_alloc" ELSE "eip_tasks"

\* allocateEIPForInstance(num, role): the AllocateAddresses call.
EipAllocate ==
  /\ pc = "eip_alloc"
  /\ LET num == IF loc.role THEN cfg.master ELSE cfg.worker IN
       IF ~(num > 0 /\ cfg.eip)
       THEN /\ pc' = AfterEipRole
            /\ loc' = [loc EXCEPT !.role = FALSE]
            /\ UNCHANGED <<cloudEip, ctr, calls, faults, ret, hist>>
       ELSE \E ok \in Outcomes :
              LET eips == [i \in 1..num |-> ctr.eip + i] IN
              IF ok
              THEN /\ cloudEip' = [a \in (DOMAIN cloudEip) \cup SeqToSet(eips) |->
                                     IF a \in DOMAIN cloudEip THEN cloudEip[a] ELSE [inst |-> 0]]
                   /\ ctr' = [ctr EXCEPT !.eip = @ + num, !.task = @ + 1]
                   /\ loc' = [loc EXCEPT !.eips = eips, !.task = ctr.task + 1]
                   /\ calls' = Append(calls, Call("AllocateAddresses", SeqToSet(eips), num,
                                                  loc.role, ctr.task + 1, "ok"))
                   /\ hist' = [hist EXCEPT !.allocated = @ \cup SeqToSet(eips)]
                   /\ pc' = "eip_wait"
                   /\ UNCHANGED <<faults, ret>>
              ELSE /\ calls' = Append(calls, Call("AllocateAddresses", {}, num, loc.role, 0, "err"))
                   /\ faults' = faults + 1
                   /\ FailCreate
                   /\ UNCHANGED <<cloudEip, ctr, loc, hist>>
  /\ UNCHANGED <<cfg, m, cloudInst, idleVars, errVars>>

\* allocateEIPForInstance: the wait on the allocation task.
EipAllocWait ==
  /\ pc = "eip_wait"
  /\ \E r \in WaitOutcomes :
       /\ calls' = Append(calls, Call("DescribeTaskResult", {}, 0, loc.role, loc.task, r))
       /\ WaitEnds(WaitCtx("describeVpcTaskResult", {}, loc.task), r)
       /\ faults' = IF r = "ok" THEN faults ELSE faults + 1
       /\ IF r = "ok" THEN pc' = "eip_describe" /\ UNCHANGED ret ELSE FailCreate
  /\ UNCHANGED <<cfg, m, cloudInst, cloudEip, ctr, loc, hist, idleVars>>

\* allocateEIPForInstance: describeAddresses(eips, nil).
EipDescribe ==
  /\ pc = "eip_describe"
  /\ \E ok \in Outcomes :
       /\ calls' = Append(calls, Call("DescribeAddresses", SeqToSet(loc.eips), 0, loc.role, 0,
                                      IF ok THEN "ok" ELSE "err"))
       /\ faults' = IF ok THEN faults ELSE faults + 1
       /\ IF ok THEN pc' = "eip_pair" /\ UNCHANGED ret ELSE FailCreate
  /\ UNCHANGED <<cfg, m, cloudInst, cloudEip, ctr, loc, hist, idleVars, errVars>>

\* allocateEIPForInstance: the Range that pairs addresses with nodes, for any
\* visiting order of the registry (only the order of the nodes of the role
\* that lack a public address matters), and its return, which is (eipIds, nil)
\* however the Range ended.
EipPair ==
  /\ pc = "eip_pair"
  /\ LET matching == {i \in DOMAIN m : m[i].Master = loc.role /\ m[i].PublicIPNil} IN
     \E order \in Perms(matching) :
     \E fails \in {{}} \cup (IF CanFault THEN {{i} : i \in matching} ELSE {}) :
       LET r == PairRange(m, order, loc.eips, loc.role, fails, ctr.task)
           done == {c \in SeqToSet(r.calls) : c.res = "ok"}
       IN /\ m' = r.m
          /\ cloudEip' = [a \in DOMAIN cloudEip |->
                            IF \E c \in done : c.ids = {a}
                            THEN [inst |-> (CHOOSE c \in done : c.ids = {a}).arg]
                            ELSE cloudEip[a]]
          /\ ctr' = [ctr EXCEPT !.task = @ + Len(r.eipIds)]
          /\ calls' = calls \o r.calls
          /\ faults' = IF fails = {} THEN faults ELSE faults + 1
          /\ loc' = [loc EXCEPT !.eipTaskIds = @ \o r.eipIds, !.role = FALSE,
                                !.eips = <<>>, !.task = 0]
          /\ IF r.panic
             THEN pc' = "failed" /\ ret' = [ret EXCEPT !.create = "panic"]
             ELSE pc' = AfterEipRole /\ UNCHANGED ret
  /\ UNCHANGED <<cfg, cloudInst, hist, idleVars, errVars>>

\* generateInstance: the wait on every association task collected.
EipTasksWait ==
  /\ pc = "eip_tasks"
  /\ IF ~cfg.eip \/ loc.i >= Len(loc.eipTaskIds)
     THEN /\ pc' = "gi_assemble"
          /\ loc' = [loc EXCEPT !.i = 0]
          /\ UNCHANGED <<calls, faults, ret, errVars>>
     ELSE \E r \in WaitOutcomes :
            /\ WaitEnds(WaitCtx("describeVpcTaskResult", {}, loc.eipTaskIds[loc.i + 1]), r)
            /\ calls' = Append(calls, Call("DescribeTaskResult", {}, 0, FALSE,
                                           loc.eipTaskIds[loc.i + 1], r))
            /\ faults' = IF r = "ok" THEN faults ELSE faults + 1
            /\ IF r = "ok"
               THEN /\ loc' = [loc EXCEPT !.i = @ + 1]
                    /\ UNCHANGED <<pc, ret>>
               ELSE /\ FailCreate
                    /\ loc' = [loc EXCEPT !.i = 0]
  /\ UNCHANGED <<cfg, m, cloudInst, cloudEip, ctr, hist, idleVars>>

\* ------------------------------------------------ generateInstance: assembly
\* The node assembleInstanceStatus stores for an instance the registry does
\* not hold.
DiscoveredNode(id, master, ips, eip) ==
  [Node(id, master, FALSE, StatusRunning) EXCEPT
     !.PublicIPNil = FALSE, !.PublicIPAddress = ips, !.EipAllocationIds = eip]

\* The loop of assembleInstanceStatus over instanceList.  failAt is the
\* instance at which describeAddresses (kind "addr") or uploadKeyPair (kind
\* "upload") fails, 0 when nothing does.
RECURSIVE AssembleLoop(_, _, _, _, _, _, _)
AssembleLoop(reg, instanceList, insts, eips, eipFlag, failAt, kind) ==
  IF instanceList = <<>> THEN [m |-> reg, calls |-> <<>>, err |-> FALSE]
  ELSE LET id == Head(instanceList)
           addrFails == eipFlag /\ failAt = id /\ kind = "addr"
           c == IF eipFlag
                THEN <<Call("DescribeAddresses", {}, id, FALSE, 0,
                            IF addrFails THEN "err" ELSE "ok")>>
                ELSE <<>>
           eip == IF eipFlag THEN BoundTo(eips, id) ELSE <<>>
           ips == PublicIps(eips, id, eipFlag)
       IN IF addrFails THEN [m |-> reg, calls |-> c, err |-> TRUE]
          ELSE IF id \in DOMAIN reg /\ failAt = id /\ kind = "upload"
          THEN [m |-> reg, calls |-> c, err |-> TRUE]
          ELSE LET node == IF id \in DOMAIN reg
                           THEN [reg[id] EXCEPT !.Current = TRUE, !.PublicIPNil = FALSE,
                                                !.PublicIPAddress = ips,
                                                !.EipAllocationIds = eip]
                           ELSE DiscoveredNode(id, insts[id].master, ips, eip)
                   rest == AssembleLoop(Store(reg, id, node), Tail(instanceList), insts, eips,
                                        eipFlag, failAt, kind)
               IN [m |-> rest.m, calls |-> c \o rest.calls, err |-> rest.err]

\* assembleInstanceStatus: the tag-based instance listing, then the loop.
AssembleInstanceStatus ==
  /\ pc = "gi_assemble"
  /\ \/ /\ CanFault
        /\ calls' = Append(calls, Call("DescribeInstances", {}, 0, FALSE, 0, "err"))
        /\ faults' = faults + 1
        /\ FailCreate
        /\ UNCHANGED m
     \/ \E failAt \in {0} \cup (IF CanFault THEN DOMAIN cloudInst ELSE {}) :
        \E kind \in {"addr", "upload"} :
          /\ failAt = 0 => kind = "addr"
          /\ failAt # 0 /\ kind = "addr" => cfg.eip
          /\ failAt # 0 /\ kind = "upload" => failAt \in DOMAIN m
          /\ LET r == AssembleLoop(m, Ascending(DOMAIN cloudInst), cloudInst, cloudEip,
                                   cfg.eip, failAt, kind)
             IN /\ m' = r.m
                /\ calls' = Append(calls, Call("DescribeInstances", DOMAIN cloudInst, 0, FALSE,
                                               0, "ok")) \o r.calls
                /\ faults' = IF failAt = 0 THEN faults ELSE faults + 1
                /\ IF r.err THEN FailCreate ELSE pc' = "post" /\ UNCHANGED ret
  /\ UNCHANGED <<cfg, cloudInst, cloudEip, ctr, loc, hist, idleVars, errVars>>

\* CreateK3sCluster / JoinK3sNode after generateInstance: the installation of
\* the cluster software on the nodes, which succeeds or fails.
InstallCluster ==
  /\ pc = "post"
  /\ \E ok \in Outcomes :
       /\ faults' = IF ok THEN faults ELSE faults + 1
       /\ IF ok
          THEN pc' = "done" /\ ret' = [ret EXCEPT !.create = "ok"]
          ELSE FailCreate
  /\ UNCHANGED <<cfg, m, cloudInst, cloudEip, ctr, calls, loc, hist, idleVars, errVars>>

\* ------------------------------------------------------------------ Rollback
\* The retries of TerminateInstances in Rollback (backoff.Steps).
RollbackSteps == 5

\* A wait on a task id the provider never handed out: every poll is an API
\* error.
WaitOnNoTask ==
  describeVpcTaskResult([i \in 1..MaxAttempts |-> [err |-> TRUE, Result |-> <<>>]]).result

\* The ids Rollback collects from the registry.
RollbackIdsAll(reg) == DOMAIN reg

RollbackIds(reg) == {i \in DOMAIN reg : reg[i].RollBack}

\* Where Rollback goes after an address step that answered ok or not: the
\* error is logged and the next step runs.
RollbackStopsOnError(next, ok) == IF ok THEN next ELSE "rb_done"

RollbackGoesOn(next, ok) == next

\* The caller of a failed CreateK3sCluster / JoinK3sNode runs Rollback: a new
\* invocation, whose calls are logged from here on (task ids are compared
\* within one invocation only, and are counted from 0 again).  Rollback up to the
\* branch on ids and PublicIPAssignedEIP; opening the log file may fail.
RollbackStart ==
  /\ pc = "failed"
  /\ ret.create = "error"
  /\ \/ /\ calls' = <<Call("Rollback", RollbackIds(m), 0, FALSE, 0, "ok")>>
        /\ loc' = [LocInit EXCEPT !.ids = RollbackIds(m)]
        /\ pc' = IF RollbackIds(m) = {} THEN "rb_cleanup"
                 ELSE IF cfg.eip THEN "rb_describe" ELSE "rb_terminate"
        /\ faults' = 0
        /\ UNCHANGED ret
     \/ /\ calls' = <<Call("Rollback", {}, 0, FALSE, 0, "err")>>
        /\ loc' = LocInit
        /\ pc' = "rb_done"
        /\ faults' = 1
        /\ ret' = [ret EXCEPT !.rollback = "error"]
  /\ ctr' = [ctr EXCEPT !.task = 0]
  /\ UNCHANGED <<cfg, m, cloudInst, cloudEip, hist, idleVars, errVars>>

\* Rollback: describeAddresses(nil, ids); an error is logged.
RollbackDescribeAddresses ==
  /\ pc = "rb_describe"
  /\ \E ok \in Outcomes :
       /\ calls' = Append(calls, Call("DescribeAddresses", {}, 0, FALSE, 0,
                                      IF ok THEN "ok" ELSE "err"))
       /\ faults' = IF ok THEN faults ELSE faults + 1
       /\ loc' = [loc EXCEPT !.eips = IF ok
                                      THEN Ascending({a \in DOMAIN cloudEip :
                                                        cloudEip[a].inst \in loc.ids})
                                      ELSE <<>>,
                             !.i = 0]
       /\ pc' = RollbackGoesOn("rb_disassoc", ok)
  /\ UNCHANGED <<cfg, m, cloudInst, cloudEip, ctr, ret, hist, idleVars, errVars>>

\* What DisassociateAddress may answer for an address: a task for a bound
\* address, no task for an address bound to nothing, or an error.
DisassociateAnswers(a) ==
  {IF a \in DOMAIN cloudEip /\ cloudEip[a].inst # 0 THEN "task" ELSE "notask"}
  \cup (IF CanFault THEN {"err"} ELSE {})

\* The provider's addresses after DisassociateAddress(a) answered o.
Disassociated(a, o) ==
  [x \in DOMAIN cloudEip |-> IF x = a /\ o = "task" THEN [inst |-> 0] ELSE cloudEip[x]]

\* Rollback: one turn of the loop over eips.
RollbackDisassociate ==
  /\ pc = "rb_disassoc"
  /\ IF loc.i >= Len(loc.eips)
     THEN /\ pc' = "rb_tasks"
          /\ loc' = [loc EXCEPT !.i = 0]
          /\ UNCHANGED <<cloudEip, ctr, calls, faults>>
     ELSE LET a == loc.eips[loc.i + 1] IN
          \E o \in DisassociateAnswers(a) :
            LET taskID == IF o = "task" THEN ctr.task + 1 ELSE 0 IN
            /\ calls' = Append(calls, Call("DisassociateAddress", {a}, 0, FALSE, taskID,
                                           IF o = "err" THEN "err" ELSE "ok"))
            /\ cloudEip' = Disassociated(a, o)
            /\ ctr' = [ctr EXCEPT !.task = IF o = "task" THEN @ + 1 ELSE @]
            /\ faults' = IF o = "err" THEN faults + 1 ELSE faults
            /\ loc' = [loc EXCEPT !.i = @ + 1,
                                  !.eipIds = Append(@, a),
                                  !.taskIds = IF o = "err" THEN @ ELSE Append(@, taskID)]
            /\ pc' = RollbackGoesOn(pc, o # "err")
  /\ UNCHANGED <<cfg, m, cloudInst, ret, hist, idleVars, errVars>>

\* How the wait on task taskID may end.
TaskWaitOutcomes(taskID) ==
  IF taskID = 0 THEN {WaitOnNoTask} ELSE WaitOutcomes

\* Rollback: one turn of the loop over taskIds; a failed wait is logged.
RollbackTaskWait ==
  /\ pc = "rb_tasks"
  /\ IF loc.i >= Len(loc.taskIds)
     THEN /\ pc' = "rb_release"
          /\ loc' = [loc EXCEPT !.i = 0]
          /\ UNCHANGED <<calls, faults, errVars>>
     ELSE \E r \in TaskWaitOutcomes(loc.taskIds[loc.i + 1]) :
            /\ WaitEnds(WaitCtx("describeVpcTaskResult", {}, loc.taskIds[loc.i + 1]), r)
            /\ calls' = Append(calls, Call("DescribeTaskResult", {}, 0, FALSE,
                                           loc.taskIds[loc.i + 1], r))
            /\ faults' = IF r = "ok" \/ loc.taskIds[loc.i + 1] = 0 THEN faults ELSE faults + 1
            /\ loc' = [loc EXCEPT !.i = @ + 1]
            /\ pc' = RollbackGoesOn(pc, r = "ok")
  /\ UNCHANGED <<cfg, m, cloudInst, cloudEip, ctr, ret, hist, idleVars>>

\* The provider's addresses after a ReleaseAddresses call that succeeded.
Released(ids) == [x \in (DOMAIN cloudEip) \ ids |-> cloudEip[x]]

\* Rollback: releaseAddresses(eipIds); an error is logged and leaves taskID 0.
RollbackRelease ==
  /\ pc = "rb_release"
  /\ \E ok \in Outcomes :
       /\ calls' = Append(calls, Call("ReleaseAddresses", SeqToSet(loc.eipIds), 0, FALSE,
                                      IF ok THEN ctr.task + 1 ELSE 0,
                                      IF ok THEN "ok" ELSE "err"))
       /\ cloudEip' = IF ok THEN Released(SeqToSet(loc.eipIds)) ELSE cloudEip
       /\ ctr' = [ctr EXCEPT !.task = IF ok THEN @ + 1 ELSE @]
       /\ faults' = IF ok THEN faults ELSE faults + 1
       /\ loc' = [loc EXCEPT !.task = IF ok THEN ctr.task + 1 ELSE 0]
       /\ pc' = RollbackGoesOn("rb_relwait", ok)
  /\ UNCHANGED <<cfg, m, cloudInst, ret, hist, idleVars, errVars>>

\* Rollback: the wait on the release task; a failed wait is logged.
RollbackReleaseWait ==
  /\ pc = "rb_relwait"
  /\ \E r \in TaskWaitOutcomes(loc.task) :
       /\ calls' = Append(calls, Call("DescribeTaskResult", {}, 0, FALSE, loc.task, r))
       /\ WaitEnds(WaitCtx("describeVpcTaskResult", {}, loc.task), r)
       /\ faults' = IF r = "ok" \/ loc.task = 0 THEN faults ELSE faults + 1
       /\ pc' = RollbackGoesOn("rb_terminate", r = "ok")
  /\ UNCHANGED <<cfg, m, cloudInst, cloudEip, ctr, loc, ret, hist, idleVars>>

\* The provider's instances after a TerminateInstances call that succeeded.
Terminated(ids) == [x \in (DOMAIN cloudInst) \ ids |-> cloudInst[x]]

\* Whether the attempt after tries failed ones is the last of the backoff.
LastAttemptLate(tries) == tries + 1 >= RollbackSteps + 1

LastAttempt(tries) == tries + 1 >= RollbackSteps

\* Rollback: one attempt of the terminateInstances retry; only the first
\* failure of the retry counts against the failures of the invocation.
RollbackTerminate ==
  /\ pc = "rb_terminate"
  /\ \E ok \in {TRUE} \cup (IF CanFault \/ loc.tries > 0 THEN {FALSE} ELSE {}) :
       /\ calls' = Append(calls, Call("TerminateInstances", loc.ids, 0, FALSE, 0,
                                      IF ok THEN "ok" ELSE "err"))
       /\ cloudInst' = IF ok THEN Terminated(loc.ids) ELSE cloudInst
       /\ WaitEnds(WaitCtx("Rollback", loc.ids, 0),
                   IF ok THEN "ok"
                   ELSE IF LastAttempt(loc.tries) THEN "timeout" ELSE "running")
       /\ faults' = IF ok \/ loc.tries > 0 THEN faults ELSE faults + 1
       /\ IF ok
          THEN /\ pc' = "rb_cleanup"
               /\ loc' = [loc EXCEPT !.tries = 0]
               /\ UNCHANGED ret
          ELSE IF LastAttempt(loc.tries)
          THEN /\ pc' = "rb_done"
               /\ loc' = [loc EXCEPT !.tries = 0]
               /\ ret' = [ret EXCEPT !.rollback = "error"]
          ELSE /\ loc' = [loc EXCEPT !.tries = @ + 1]
               /\ UNCHANGED <<pc, ret>>
  /\ UNCHANGED <<cfg, m, cloudEip, ctr, hist, idleVars>>

\* Rollback: the removal of the cluster's local folder, and the return.
RollbackCleanup ==
  /\ pc = "rb_cleanup"
  /\ \E ok \in Outcomes :
       /\ faults' = IF ok THEN faults ELSE faults + 1
       /\ ret' = [ret EXCEPT !.rollback = IF ok THEN "ok" ELSE "error"]
  /\ pc' = "rb_done"
  /\ UNCHANGED <<cfg, m, cloudInst, cloudEip, ctr, calls, loc, hist, idleVars, errVars>>

CreateNext ==
  \/ ConfigNetwork
  \/ ConfigSecurityGroup
  \/ RunInstancesStep(TRUE)
  \/ RunInstancesStep(FALSE)
  \/ GetInstanceStatusPoll
  \/ EipAllocate
  \/ EipAllocWait
  \/ EipDescribe
  \/ EipPair
  \/ EipTasksWait
  \/ AssembleInstanceStatus
  \/ InstallCluster
  \/ RollbackStart
  \/ RollbackDescribeAddresses
  \/ RollbackDisassociate
  \/ RollbackTaskWait
  \/ RollbackRelease
  \/ RollbackReleaseWait
  \/ RollbackTerminate
  \/ RollbackCleanup

SpecCreate == CreateInit /\ [][CreateNext]_vars

\* -------------------------------------------------------------------- Delete
\* DeleteK3sCluster(f) on a cluster that owns any number of tagged instances
\* and tagged floating addresses, each address bound to an instance or to
\* nothing.
DeleteInit ==
  /\ TaskIdle
  /\ ErrIdle
  /\ NetIdle
  /\ SgIdle
  /\ ChkIdle
  /\ SynIdle
  /\ PagerIdle
  /\ cfg \in [op : {"delete"}, master : {0}, worker : {0}, eip : {FALSE}, force : BOOLEAN]
  /\ \E n \in 0..MaxTagged, k \in 0..MaxTagged :
       /\ cloudInst = [i \in 1..n |-> [master |-> i = 1, state |-> StatusRunning]]
       /\ cloudEip \in [1..k -> [inst : 0..n]]
       /\ ctr = [inst |-> n, eip |-> k, task |-> 0]
  /\ pc = "del_exist"
  /\ m = <<>>
  /\ calls = <<>>
  /\ loc = LocInit
  /\ ret = [create |-> "none", rollback |-> "none", delete |-> "none"]
  /\ hist = [launched |-> {}, allocated |-> {}]
  /\ faults = 0

\* deleteCluster returns.
ReturnDelete(r) ==
  /\ pc' = "del_done"
  /\ ret' = [ret EXCEPT !.delete = r]

\* deleteCluster: IsClusterExist (describeInstances) and the branch on it.
DeleteIsClusterExist ==
  /\ pc = "del_exist"
  /\ \E ok \in Outcomes :
       /\ calls' = Append(calls, Call("DescribeInstances", IF ok THEN DOMAIN cloudInst ELSE {},
                                      0, FALSE, 0, IF ok THEN "ok" ELSE "err"))
       /\ faults' = IF ok THEN faults ELSE faults + 1
       /\ IF ~ok THEN ReturnDelete("error") /\ UNCHANGED loc
          ELSE IF DOMAIN cloudInst = {}
          THEN ReturnDelete(IF cfg.force THEN "ok" ELSE "error") /\ UNCHANGED loc
          ELSE /\ pc' = "del_tags"
               /\ loc' = [loc EXCEPT !.ids = DOMAIN cloudInst]
               /\ UNCHANGED ret
  /\ UNCHANGED <<cfg, m, cloudInst, cloudEip, ctr, hist, idleVars, errVars>>

\* tencent.ServiceTypeEIP, tencent.ResourcePrefixEIP (pkg/types/tencent)
ServiceTypeEIP == <<"c", "v", "m">>
ResourcePrefixEIP == <<"e", "i", "p">>

\* The rows DescribeResourcesByTags returns for the cluster's tags: one for
\* each tagged instance (its ResourceId is written 0 - id, the ResourceId of
\* an address is its id, and 0 stands for the empty ResourceId), one for each
\* tagged address, in lower or in upper case, and with shape "blank" a row of
\* the kind of an address without a ResourceId.
TaggedRows(insts, eips, shape) ==
  [i \in 1..Cardinality(DOMAIN insts) |->
     [ServiceType |-> <<"c", "v", "m">>,
      ResourcePrefix |-> <<"i", "n", "s", "t", "a", "n", "c", "e">>,
      ResourceId |-> 0 - Ascending(DOMAIN insts)[i]]]
  \o [i \in 1..Cardinality(DOMAIN eips) |->
        [ServiceType |-> IF shape = "upper" THEN <<"C", "V", "M">> ELSE <<"c", "v", "m">>,
         ResourcePrefix |-> IF shape = "upper" THEN <<"E", "I", "P">> ELSE <<"e", "i", "p">>,
         ResourceId |-> Ascending(DOMAIN eips)[i]]]
  \o (IF shape = "blank"
      THEN <<[ServiceType |-> <<"c", "v", "m">>, ResourcePrefix |-> <<"e", "i", "p">>,
              ResourceId |-> 0]>>
      ELSE <<>>)

\* deleteCluster: whether a tagged resource is disassociated and released.
IsEipRowAnyKind(resource) == resource.ResourceId # 0

IsEipRow(resource) ==
  /\ EqualFold(ServiceTypeEIP, resource.ServiceType)
  /\ EqualFold(ResourcePrefixEIP, resource.ResourcePrefix)
  /\ resource.ResourceId # 0

\* The ids of the tagged resources the loop of deleteCluster handles, in the
\* order of the rows.
TaggedEips(rows) ==
  [i \in 1..Len(SelectSeq(rows, IsEipRow)) |-> SelectSeq(rows, IsEipRow)[i].ResourceId]

\* deleteCluster: describeResourcesByTags; an error is logged and kept in err.
DeleteDescribeResourcesByTags ==
  /\ pc = "del_tags"
  /\ \E ok \in Outcomes, shape \in {"lower", "upper", "blank"} :
       /\ ~ok => shape = "lower"
       /\ calls' = Append(calls, Call("DescribeResourcesByTags",
                                      IF ok THEN DOMAIN cloudEip ELSE {}, 0, FALSE, 0,
                                      IF ok THEN "ok" ELSE "err"))
       /\ faults' = IF ok THEN faults ELSE faults + 1
       /\ loc' = [loc EXCEPT !.tagErr = ~ok,
                             !.rows = IF ok THEN TaggedRows(cloudInst, cloudEip, shape)
                                      ELSE <<>>,
                             !.eips = IF ok
                                      THEN TaggedEips(TaggedRows(cloudInst, cloudEip, shape))
                                      ELSE <<>>,
                             !.i = 0]
  /\ pc' = "del_disassoc"
  /\ UNCHANGED <<cfg, m, cloudInst, cloudEip, ctr, ret, hist, idleVars, errVars>>

\* deleteCluster: one turn of the loop over the tagged addresses.  An error
\* of disassociateAddress is logged; the address is released all the same.
DeleteDisassociate ==
  /\ pc = "del_disassoc"
  /\ IF loc.i >= Len(loc.eips)
     THEN /\ pc' = "del_tasks"
          /\ loc' = [loc EXCEPT !.i = 0]
          /\ UNCHANGED <<cloudEip, ctr, calls, faults>>
     ELSE LET a == loc.eips[loc.i + 1] IN
          \E o \in DisassociateAnswers(a) :
            LET taskID == IF o = "task" THEN ctr.task + 1 ELSE 0 IN
            /\ calls' = Append(calls, Call("DisassociateAddress", {a}, 0, FALSE, taskID,
                                           IF o = "err" THEN "err" ELSE "ok"))
            /\ cloudEip' = Disassociated(a, o)
            /\ ctr' = [ctr EXCEPT !.task = IF o = "task" THEN @ + 1 ELSE @]
            /\ faults' = IF o = "err" THEN faults + 1 ELSE faults
            /\ loc' = [loc EXCEPT !.i = @ + 1,
                                  !.eipIds = Append(@, a),
                                  !.taskIds = IF taskID # 0 THEN Append(@, taskID) ELSE @]
            /\ UNCHANGED pc
  /\ UNCHANGED <<cfg, m, cloudInst, ret, hist, idleVars, errVars>>

\* deleteCluster: one turn of the loop over taskIds; a failed wait is logged.
DeleteTaskWait ==
  /\ pc = "del_tasks"
  /\ IF loc.i >= Len(loc.taskIds)
     THEN /\ pc' = IF Len(loc.eipIds) > 0 THEN "del_release" ELSE "del_terminate"
          /\ loc' = [loc EXCEPT !.i = 0]
          /\ UNCHANGED <<calls, faults, errVars>>
     ELSE \E r \in TaskWaitOutcomes(loc.taskIds[loc.i + 1]) :
            /\ WaitEnds(WaitCtx("describeVpcTaskResult", {}, loc.taskIds[loc.i + 1]), r)
            /\ calls' = Append(calls, Call("DescribeTaskResult", {}, 0, FALSE,
                                           loc.taskIds[loc.i + 1], r))
            /\ faults' = IF r = "ok" THEN faults ELSE faults + 1
            /\ loc' = [loc EXCEPT !.i = @ + 1]
            /\ UNCHANGED pc
  /\ UNCHANGED <<cfg, m, cloudInst, cloudEip, ctr, ret, hist, idleVars>>

\* deleteCluster: releaseAddresses(eipIds); an error is logged and leaves
\* taskID 0.
DeleteRelease ==
  /\ pc = "del_release"
  /\ \E ok \in Outcomes :
       /\ calls' = Append(calls, Call("ReleaseAddresses", SeqToSet(loc.eipIds), 0, FALSE,
                                      IF ok THEN ctr.task + 1 ELSE 0,
                                      IF ok THEN "ok" ELSE "err"))
       /\ cloudEip' = IF ok THEN Released(SeqToSet(loc.eipIds)) ELSE cloudEip
       /\ ctr' = [ctr EXCEPT !.task = IF ok THEN @ + 1 ELSE @]
       /\ faults' = IF ok THEN faults ELSE faults + 1
       /\ loc' = [loc EXCEPT !.task = IF ok THEN ctr.task + 1 ELSE 0]
  /\ pc' = "del_relwait"
  /\ UNCHANGED <<cfg, m, cloudInst, ret, hist, idleVars, errVars>>

\* deleteCluster: the wait on the release task; a failed wait is logged.
DeleteReleaseWait ==
  /\ pc = "del_relwait"
  /\ \E r \in TaskWaitOutcomes(loc.task) :
       /\ calls' = Append(calls, Call("DescribeTaskResult", {}, 0, FALSE, loc.task, r))
       /\ WaitEnds(WaitCtx("describeVpcTaskResult", {}, loc.task), r)
       /\ faults' = IF r = "ok" \/ loc.task = 0 THEN faults ELSE faults + 1
  /\ pc' = "del_terminate"
  /\ UNCHANGED <<cfg, m, cloudInst, cloudEip, ctr, loc, ret, hist, idleVars>>

\* Whether deleteCluster goes on to terminateInstances(ids): err is the
\* error of describeResourcesByTags.
DeleteTerminatesNever(tagErr, ids) == FALSE

DeleteTerminates(tagErr, ids) == ~tagErr /\ ids # {}

\* deleteCluster: terminateInstances(ids) when err is nil, then the return
\* on err when not forced.
DeleteTerminate ==
  /\ pc = "del_terminate"
  /\ IF DeleteTerminates(loc.tagErr, loc.ids)
     THEN \E ok \in Outcomes :
            /\ calls' = Append(calls, Call("TerminateInstances", loc.ids, 0, FALSE, 0,
                                           IF ok THEN "ok" ELSE "err"))
            /\ cloudInst' = IF ok THEN Terminated(loc.ids) ELSE cloudInst
            /\ faults' = IF ok THEN faults ELSE faults + 1
            /\ IF ok THEN pc' = "del_cleanup" /\ UNCHANGED ret ELSE ReturnDelete("error")
     ELSE /\ IF loc.tagErr /\ ~cfg.force
             THEN ReturnDelete("error")
             ELSE pc' = "del_cleanup" /\ UNCHANGED ret
          /\ UNCHANGED <<cloudInst, calls, faults>>
  /\ UNCHANGED <<cfg, m, cloudEip, ctr, loc, hist, idleVars, errVars>>

\* deleteCluster: the local clean-up (OverwriteCfg, DeleteState, RemoveAll),
\* whose errors are returned only when not forced.
DeleteCleanup ==
  /\ pc = "del_cleanup"
  /\ \E ok \in Outcomes :
       /\ faults' = IF ok THEN faults ELSE faults + 1
       /\ ReturnDelete(IF ok \/ cfg.force THEN "ok" ELSE "error")
  /\ UNCHANGED <<cfg, m, cloudInst, cloudEip, ctr, calls, loc, hist, idleVars, errVars>>

DeleteNext ==
  \/ DeleteIsClusterExist
  \/ DeleteDescribeResourcesByTags
  \/ DeleteDisassociate
  \/ DeleteTaskWait
  \/ DeleteRelease
  \/ DeleteReleaseWait
  \/ DeleteTerminate
  \/ DeleteCleanup

SpecDelete == DeleteInit /\ [][DeleteNext]_vars

\* ------------------------------------------------------------ configNetwork
\* The provider lists what matches a filter in a fixed order: oldest first
\* ("asc") or newest first ("desc"); ids grow with the time of creation.
Listing(S, order) ==
  LET asc == Ascending(S) IN
    IF order = "asc" THEN asc ELSE [i \in 1..Len(asc) |-> asc[Len(asc) + 1 - i]]

\* DescribeVpcs filtered by vpc-name and tag:autok3s.
VpcSet(n) == Listing(n.vpcs, n.order)

\* DescribeSubnets filtered by subnet-name and tag:autok3s (the request
\* carries no vpc-id filter).
SubnetSet(n) == Listing(DOMAIN n.subnets, n.order)

\* Whether configNetwork takes the branch that reuses a network.
FoundVpc(vpcSet) == Len(vpcSet) > 0

\* configNetwork runs on a provider that holds any tagged networks of the
\* default name and any tagged subnets of the default name, each subnet in one
\* of those networks or in another network (a network id that is not tagged).
NetInit ==
  /\ TaskIdle
  /\ MainIdle
  /\ ErrIdle
  /\ SgIdle
  /\ ChkIdle
  /\ SynIdle
  /\ PagerIdle
  /\ \E vpcs \in SUBSET (1..MaxVpcs), k \in 0..MaxSubnets, order \in {"asc", "desc"} :
     \E subnets \in [1..k -> 1..MaxVpcs] :
       net = [pc |-> "vpcs", order |-> order, vpcs |-> vpcs, subnets |-> subnets,
              nextVpc |-> MaxVpcs + 1, VpcID |-> 0, SubnetID |-> 0, calls |-> <<>>,
              run |-> 1, first |-> [VpcID |-> 0, SubnetID |-> 0], reused |-> FALSE,
              faults |-> 0]

\* The outcomes of a provider call of configNetwork.
NetOutcomes == {TRUE} \cup (IF net.faults < MaxFaults THEN {FALSE} ELSE {})

NetCall(op, ok) == [op |-> op, run |-> net.run, res |-> IF ok THEN "ok" ELSE "err"]

\* configNetwork: DescribeVpcs and the branch on its answer.
NetDescribeVpcs ==
  /\ net.pc = "vpcs"
  /\ \E ok \in NetOutcomes :
       net' = IF ~ok
              THEN [net EXCEPT !.pc = "failed", !.faults = @ + 1,
                               !.calls = Append(@, NetCall("DescribeVpcs", ok))]
              ELSE IF FoundVpc(VpcSet(net))
              THEN [net EXCEPT !.pc = "subnets", !.VpcID = VpcSet(net)[1], !.reused = TRUE,
                               !.calls = Append(@, NetCall("DescribeVpcs", ok))]
              ELSE [net EXCEPT !.pc = "createVpc", !.reused = FALSE,
                               !.calls = Append(@, NetCall("DescribeVpcs", ok))]
  /\ UNCHANGED <<taskVars, mainVars, errVars, sg, chk, syn, pager>>

\* configNetwork: DescribeSubnets and the branch on its answer.
NetDescribeSubnets ==
  /\ net.pc = "subnets"
  /\ \E ok \in NetOutcomes :
       net' = IF ~ok
              THEN [net EXCEPT !.pc = "failed", !.faults = @ + 1,
                               !.calls = Append(@, NetCall("DescribeSubnets", ok))]
              ELSE IF Len(SubnetSet(net)) > 0
              THEN [net EXCEPT !.pc = "done", !.SubnetID = SubnetSet(net)[1],
                               !.calls = Append(@, NetCall("DescribeSubnets", ok))]
              ELSE [net EXCEPT !.pc = "createSubnet",
                               !.calls = Append(@, NetCall("DescribeSubnets", ok))]
  /\ UNCHANGED <<taskVars, mainVars, errVars, sg, chk, syn, pager>>

\* generateDefaultVPC
GenerateDefaultVPC ==
  /\ net.pc = "createVpc"
  /\ \E ok \in NetOutcomes :
       net' = IF ~ok
              THEN [net EXCEPT !.pc = "failed", !.faults = @ + 1,
                               !.calls = Append(@, NetCall("CreateVpc", ok))]
              ELSE [net EXCEPT !.pc = "createSubnet", !.VpcID = net.nextVpc,
                               !.vpcs = @ \cup {net.nextVpc}, !.nextVpc = @ + 1,
                               !.calls = Append(@, NetCall("CreateVpc", ok))]
  /\ UNCHANGED <<taskVars, mainVars, errVars, sg, chk, syn, pager>>

\* generateDefaultSubnet: the subnet is created in the network p.VpcID.
GenerateDefaultSubnet ==
  /\ net.pc = "createSubnet"
  /\ \E ok \in NetOutcomes :
       net' = IF ~ok
              THEN [net EXCEPT !.pc = "failed", !.faults = @ + 1,
                               !.calls = Append(@, NetCall("CreateSubnet", ok))]
              ELSE LET id == Len(net.subnets) + 1 IN
                   [net EXCEPT !.pc = "done", !.SubnetID = id,
                               !.subnets = Append(@, net.VpcID),
                               !.calls = Append(@, NetCall("CreateSubnet", ok))]
  /\ UNCHANGED <<taskVars, mainVars, errVars, sg, chk, syn, pager>>

\* A second invocation, with no VpcID supplied, on the provider state the
\* first one left.
NetInvokeAgain ==
  /\ net.pc = "done"
  /\ net.run = 1
  /\ net' = [net EXCEPT !.pc = "vpcs", !.run = 2, !.VpcID = 0, !.SubnetID = 0,
                        !.first = [VpcID |-> net.VpcID, SubnetID |-> net.SubnetID],
                        !.faults = 0]
  /\ UNCHANGED <<taskVars, mainVars, errVars, sg, chk, syn, pager>>

NetNext ==
  \/ NetDescribeVpcs
  \/ NetDescribeSubnets
  \/ GenerateDefaultVPC
  \/ GenerateDefaultSubnet
  \/ NetInvokeAgain

SpecNetwork == NetInit /\ [][NetNext]_vars

\* -------------------------------------------- configDefaultSecurityPermission
\* ipRange, subnetCidrBlock
ipRange == "0.0.0.0/0"
subnetCidrBlock == "192.168.3.0/24"

\* strconv.Atoi on a token, its error ignored: the number a token of decimal
\* digits spells, 0 for any other token.
Digits == <<"0", "1", "2", "3", "4", "5", "6", "7", "8", "9">>

IsDigit(c) == \E d \in 1..Len(Digits) : Digits[d] = c

DigitValue(c) == (CHOOSE d \in 1..Len(Digits) : Digits[d] = c) - 1

RECURSIVE AtoiFrom(_, _)
AtoiFrom(tok, acc) ==
  IF tok = <<>> THEN acc ELSE AtoiFrom(Tail(tok), 10 * acc + DigitValue(Head(tok)))

Atoi(tok) ==
  IF tok # <<>> /\ \A i \in 1..Len(tok) : IsDigit(tok[i]) THEN AtoiFrom(tok, 0) ELSE 0

\* strings.Split(ports, ","): cur is the token read so far.
RECURSIVE SplitFrom(_, _)
SplitFrom(str, cur) ==
  IF str = <<>> THEN <<cur>>
  ELSE IF Head(str) = "," THEN <<cur>> \o SplitFrom(Tail(str), <<>>)
  ELSE SplitFrom(Tail(str), Append(cur, Head(str)))

Split(str) == SplitFrom(str, <<>>)

\* A vpc.SecurityGroupPolicy: Port is a string (a sequence of characters).
Policy(protocol, port, cidrBlock) ==
  [Protocol |-> protocol, Port |-> port, CidrBlock |-> cidrBlock]

Port22 == <<"2", "2">>
Port6443 == <<"6", "4", "4", "3">>
Port10250 == <<"1", "0", "2", "5", "0">>
Port8472 == <<"8", "4", "7", "2">>
Port8999 == <<"8", "9", "9", "9">>
Port2379 == <<"2", "3", "7", "9">>
Port2380 == <<"2", "3", "8", "0">>
PortAll == <<"a", "l", "l">>

\* Whether some rule names the port among its comma-separated ports.
NamesPort(rule, port) ==
  \E i \in 1..Len(Split(rule.Port)) : Atoi(Split(rule.Port)[i]) = port

\* The has... flags the loop over the ingress rules computes, and hasEgress,
\* all of them inside the branch on a non-nil Ingress.
HasPort(resp, port) ==
  ~resp.IngressNil /\ \E rule \in resp.Ingress : NamesPort(rule, port)

HasPortFromCidr(resp, port, cidr) ==
  /\ ~resp.IngressNil
  /\ \E rule \in resp.Ingress :
       NamesPort(rule, port) /\ (rule.CidrBlock = cidr \/ rule.CidrBlock = ipRange)

HasEgress(resp) == ~resp.IngressNil /\ resp.Egress # {}

\* The two datastore rules, added when either flag is false.
EtcdPermsAlways(resp, cidr) ==
  <<Policy("TCP", Port2379, cidr), Policy("TCP", Port2380, cidr)>>

EtcdPerms(resp, cidr) ==
  IF ~HasPortFromCidr(resp, 2379, cidr) \/ ~HasPortFromCidr(resp, 2380, cidr)
  THEN <<Policy("TCP", Port2379, cidr), Policy("TCP", Port2380, cidr)>>
  ELSE <<>>

\* perms: the ingress rules configDefaultSecurityPermission appends, in order.
IngressPerms(resp, cidr, network, ui) ==
  (IF ~HasPort(resp, 22) THEN <<Policy("TCP", Port22, ipRange)>> ELSE <<>>)
  \o (IF (network = "" \/ network = "vxlan") /\ ~HasPort(resp, 8472)
      THEN <<Policy("UDP", Port8472, ipRange)>> ELSE <<>>)
  \o (IF ~HasPort(resp, 6443) THEN <<Policy("TCP", Port6443, ipRange)>> ELSE <<>>)
  \o (IF ~HasPort(resp, 10250) THEN <<Policy("TCP", Port10250, ipRange)>> ELSE <<>>)
  \o EtcdPerms(resp, cidr)
  \o (IF ui /\ ~HasPort(resp, 8999) THEN <<Policy("TCP", Port8999, ipRange)>> ELSE <<>>)

\* The egress rule added when hasEgress is false.
EgressPerms(resp) ==
  IF ~HasEgress(resp) THEN <<Policy("ALL", PortAll, ipRange)>> ELSE <<>>

\* ------------------------------------------------------ configSecurityGroup
\* The ingress rules a group found by name and tag may already hold.
NodePortRange == <<"3", "0", "0", "0", "0", "-", "3", "2", "7", "6", "7">>

ServerPorts == Port6443 \o <<",">> \o Port10250 \o <<",">> \o NodePortRange

otherCidrBlock == "10.0.1.0/24"

IngressUniverse ==
  { Policy("TCP", Port22, ipRange),
    Policy("TCP", ServerPorts, ipRange),
    Policy("UDP", Port8472, ipRange),
    Policy("TCP", Port8999, ipRange),
    Policy("TCP", Port2379, otherCidrBlock),
    Policy("TCP", Port2380, otherCidrBlock),
    Policy("TCP", Port2379, ipRange) }

EgressUniverse == { Policy("TCP", <<"4", "4", "3">>, ipRange) }

\* How DescribeSubnets answers getSubnetCidr: a subnet with its block, a
\* response without a SubnetSet, or an empty SubnetSet.
SubnetAnswers ==
  { [set |-> "subnet", CidrBlock |-> b] : b \in {subnetCidrBlock, otherCidrBlock} }
  \cup { [set |-> "nil", CidrBlock |-> ""], [set |-> "empty", CidrBlock |-> ""] }

\* CreateSecurityGroupPolicies at the provider: the batch joins the rules.
PoliciesReplaced(existing, batch) == SeqToSet(batch)

PoliciesAdded(existing, batch) == existing \cup SeqToSet(batch)

NoSubnetAnswer == [set |-> "none", CidrBlock |-> ""]

NoResp == [IngressNil |-> TRUE, Ingress |-> {}, Egress |-> {}]

SgInit ==
  /\ TaskIdle
  /\ MainIdle
  /\ ErrIdle
  /\ NetIdle
  /\ ChkIdle
  /\ SynIdle
  /\ PagerIdle
  /\ \E group \in BOOLEAN, ingress \in SUBSET IngressUniverse,
        egress \in SUBSET EgressUniverse, nilWhenEmpty \in BOOLEAN,
        network \in {"", "vxlan", "none"}, ui \in BOOLEAN, subnetID \in BOOLEAN :
       /\ ~group => ingress = {} /\ egress = {} /\ ~nilWhenEmpty
       /\ ingress # {} => ~nilWhenEmpty
       /\ sg = [pc |-> "groups", group |-> group, ingress |-> ingress,
                egress |-> egress, nilWhenEmpty |-> nilWhenEmpty,
                Network |-> network, UI |-> ui, SubnetID |-> subnetID,
                SecurityGroupIds |-> FALSE, resp |-> NoResp, cidr |-> "",
                answer |-> NoSubnetAnswer,
                before |-> [group |-> group, ingress |-> ingress, egress |-> egress],
                calls |-> <<>>, faults |-> 0]

SgOutcomes == {TRUE} \cup (IF sg.faults < MaxFaults THEN {FALSE} ELSE {})

SgCall(op, arg, ok) ==
  [calls |-> Append(sg.calls, [op |-> op, arg |-> arg, ok |-> ok]),
   faults |-> IF ok THEN sg.faults ELSE sg.faults + 1]

SgOthersUnchanged == UNCHANGED <<taskVars, mainVars, errVars, net, chk, syn, pager>>

\* configSecurityGroup: DescribeSecurityGroups by name and tag.
SgDescribeSecurityGroups ==
  /\ sg.pc = "groups"
  /\ \E ok \in SgOutcomes :
       sg' = [sg EXCEPT !.calls = SgCall("DescribeSecurityGroups", <<>>, ok).calls,
                        !.faults = SgCall("DescribeSecurityGroups", <<>>, ok).faults,
                        !.SecurityGroupIds = ok /\ sg.group,
                        !.pc = IF ~ok THEN "failed"
                               ELSE IF sg.group THEN "policies" ELSE "create"]
  /\ SgOthersUnchanged

\* generateDefaultSecurityGroup: CreateSecurityGroup.
GenerateDefaultSecurityGroup ==
  /\ sg.pc = "create"
  /\ \E ok \in SgOutcomes :
       sg' = [sg EXCEPT !.calls = SgCall("CreateSecurityGroup", <<>>, ok).calls,
                        !.faults = SgCall("CreateSecurityGroup", <<>>, ok).faults,
                        !.group = ok,
                        !.SecurityGroupIds = ok,
                        !.pc = IF ok THEN "policies" ELSE "failed"]
  /\ SgOthersUnchanged

\* configDefaultSecurityPermission: DescribeSecurityGroupPolicies.
SgDescribePolicies ==
  /\ sg.pc = "policies"
  /\ \E ok \in SgOutcomes :
       sg' = [sg EXCEPT !.calls = SgCall("DescribeSecurityGroupPolicies", <<>>, ok).calls,
                        !.faults = SgCall("DescribeSecurityGroupPolicies", <<>>, ok).faults,
                        !.resp = IF ok
                                 THEN [IngressNil |-> sg.ingress = {} /\ sg.nilWhenEmpty,
                                       Ingress |-> sg.ingress, Egress |-> sg.egress]
                                 ELSE NoResp,
                        !.pc = IF ~ok THEN "failed"
                               ELSE IF sg.SubnetID THEN "subnet" ELSE "ingress",
                        !.cidr = subnetCidrBlock]
  /\ SgOthersUnchanged

\* getSubnetCidr: the first subnet's block, "" without a SubnetSet; indexing an
\* empty SubnetSet panics.
GetSubnetCidr ==
  /\ sg.pc = "subnet"
  /\ \E ok \in SgOutcomes, answer \in SubnetAnswers :
       sg' = [sg EXCEPT !.calls = SgCall("DescribeSubnets", <<>>, ok).calls,
                        !.faults = SgCall("DescribeSubnets", <<>>, ok).faults,
                        !.cidr = IF ok THEN answer.CidrBlock ELSE "",
                        !.answer = IF ok THEN answer ELSE sg.answer,
                        !.pc = IF ~ok THEN "failed"
                               ELSE IF answer.set = "empty" THEN "panic"
                               ELSE "ingress"]
  /\ SgOthersUnchanged

\* The ingress batch: one CreateSecurityGroupPolicies when perms is not empty.
SgCreateIngress ==
  /\ sg.pc = "ingress"
  /\ LET perms == IngressPerms(sg.resp, sg.cidr, sg.Network, sg.UI) IN
     IF perms = <<>>
     THEN sg' = [sg EXCEPT !.pc = "egress"]
     ELSE \E ok \in SgOutcomes :
            LET arg == [Ingress |-> perms, Egress |-> <<>>] IN
            sg' = [sg EXCEPT !.calls = SgCall("CreateSecurityGroupPolicies", arg, ok).calls,
                             !.faults = SgCall("CreateSecurityGroupPolicies", arg, ok).faults,
                             !.ingress = IF ok THEN PoliciesAdded(sg.ingress, perms)
                                         ELSE sg.ingress,
                             !.pc = IF ok THEN "egress" ELSE "failed"]
  /\ SgOthersUnchanged

\* The egress rule: a second CreateSecurityGroupPolicies when hasEgress is false.
SgCreateEgress ==
  /\ sg.pc = "egress"
  /\ LET perms == EgressPerms(sg.resp) IN
     IF perms = <<>>
     THEN sg' = [sg EXCEPT !.pc = "done"]
     ELSE \E ok \in SgOutcomes :
            LET arg == [Ingress |-> <<>>, Egress |-> perms] IN
            sg' = [sg EXCEPT !.calls = SgCall("CreateSecurityGroupPolicies", arg, ok).calls,
                             !.faults = SgCall("CreateSecurityGroupPolicies", arg, ok).faults,
                             !.egress = IF ok THEN PoliciesAdded(sg.egress, perms)
                                        ELSE sg.egress,
                             !.pc = IF ok THEN "done" ELSE "failed"]
  /\ SgOthersUnchanged

SgNext ==
  \/ SgDescribeSecurityGroups
  \/ GenerateDefaultSecurityGroup
  \/ SgDescribePolicies
  \/ GetSubnetCidr
  \/ SgCreateIngress
  \/ SgCreateEgress

SpecSecurity == SgInit /\ [][SgNext]_vars

\* ------------------------------------------------- CreateCheck, joinCheck
\* The instance ids a cluster may own at the provider, and the length of the
\* worker list remembered in the state file.
MaxLive == 3
MaxRemembered == 2

defaultRegion == "ap-guangzhou"
defaultZone == "ap-guangzhou-3"

\* strings.Contains(str, sub)
Contains(str, sub) ==
  \E i \in 0..(Len(str) - Len(sub)) : SubSeq(str, i + 1, i + Len(sub)) = sub

DatastoreEndpointFlag == <<"-", "-", "d", "a", "t", "a", "s", "t", "o", "r", "e", "-", "e", "n", "d", "p", "o", "i", "n", "t">>

\* Values of --master-extra-args: none, the endpoint flag alone, the flag after
\* another flag, another flag alone.
TlsSanFlag == <<"-", "-", "t", "l", "s", "-", "s", "a", "n", " ", "x">>

MasterExtraArgsValues ==
  { <<>>,
    DatastoreEndpointFlag \o <<"=", "x">>,
    TlsSanFlag \o <<" ">> \o DatastoreEndpointFlag \o <<"=", "x">>,
    TlsSanFlag }

\* Values of --master and --worker: numbers, a word, nothing.
CountValues == { <<"0">>, <<"1">>, <<"2">>, <<"x">>, <<>> }

\* err of strconv.Atoi
AtoiErr(tok) == tok = <<>> \/ \E i \in 1..Len(tok) : ~IsDigit(tok[i])

\* The checks of CreateCheck before the instance discovery.
CreateCheckOptions(p) ==
  IF p.KeyIds /\ ~p.SSHKeyPath THEN "error"
  ELSE IF Atoi(p.Master) < 1 \/ AtoiErr(p.Master) THEN "error"
  ELSE IF Atoi(p.Master) > 1 /\ ~p.Cluster /\ ~p.DataStore THEN "error"
  ELSE IF Contains(p.MasterExtraArgs, DatastoreEndpointFlag) /\ p.DataStore THEN "error"
  ELSE "ok"

\* The checks of CreateCheck after the instance discovery answered.
CreateCheckAcceptsExisting(p, exist) == "ok"

CreateCheckDiscovered(p, exist) ==
  IF exist THEN "error"
  ELSE IF p.Region # defaultRegion /\ p.Zone = defaultZone /\ ~p.VpcID THEN "error"
  ELSE IF p.CloudControllerManager /\ ~p.NetworkRouteTableName THEN "error"
  ELSE "ok"

\* The checks of joinCheck before the instance discovery.
JoinCheckOptions(p) ==
  IF p.Master = <<"0">> /\ p.Worker = <<"0">> THEN "error"
  ELSE IF Contains(p.MasterExtraArgs, DatastoreEndpointFlag) /\ p.DataStore THEN "error"
  ELSE "ok"

\* joinCheck: the remembered workers whose instance is among ids.
RECURSIVE LiveWorkers(_, _)
LiveWorkersAll(workers, ids) == workers

LiveWorkers(workers, ids) ==
  IF workers = <<>> THEN <<>>
  ELSE (IF Head(workers).InstanceID \in ids THEN <<Head(workers)>> ELSE <<>>)
       \o LiveWorkers(Tail(workers), ids)

\* A node of the remembered lists.
Remembered(id, master) == [InstanceID |-> id, Master |-> master]

RECURSIVE SeqsUpTo(_, _)
SeqsUpTo(S, n) ==
  IF n = 0 THEN {<<>>}
  ELSE SeqsUpTo(S, n - 1)
       \cup {Append(q, x) : q \in {r \in SeqsUpTo(S, n - 1) : Len(r) = n - 1}, x \in S}

CreateCheckOptionSets ==
  [op : {"create"}, Master : CountValues, Worker : {<<"0">>},
   Cluster : BOOLEAN, DataStore : BOOLEAN, MasterExtraArgs : MasterExtraArgsValues,
   KeyIds : BOOLEAN, SSHKeyPath : BOOLEAN,
   Region : {defaultRegion, "ap-beijing"}, Zone : {defaultZone, "ap-beijing-1"},
   VpcID : BOOLEAN, CloudControllerManager : BOOLEAN, NetworkRouteTableName : BOOLEAN]

JoinCheckOptionSets ==
  [op : {"join"}, Master : {<<"0">>, <<"1">>}, Worker : {<<"0">>, <<"2">>},
   Cluster : {FALSE}, DataStore : BOOLEAN, MasterExtraArgs : MasterExtraArgsValues,
   KeyIds : {FALSE}, SSHKeyPath : {FALSE},
   Region : {defaultRegion}, Zone : {defaultZone},
   VpcID : {FALSE}, CloudControllerManager : {FALSE}, NetworkRouteTableName : {FALSE}]

ChkInit ==
  /\ TaskIdle
  /\ MainIdle
  /\ ErrIdle
  /\ NetIdle
  /\ SgIdle
  /\ SynIdle
  /\ PagerIdle
  /\ \E p \in CreateCheckOptionSets \cup JoinCheckOptionSets,
        live \in SUBSET (1..MaxLive),
        workers \in SeqsUpTo(2..MaxLive, MaxRemembered) :
       /\ p.op = "create" => workers = <<>> /\ live \in {{}, {1}}
       /\ chk = [pc |-> "options", p |-> p, live |-> live,
                 MasterNodes |-> IF p.op = "join" THEN <<Remembered(1, TRUE)>> ELSE <<>>,
                 WorkerNodes |-> [i \in 1..Len(workers) |-> Remembered(workers[i], FALSE)],
                 m |-> <<>>, calls |-> <<>>, ret |-> "none",
                 before |-> [MasterNodes |-> IF p.op = "join"
                                             THEN <<Remembered(1, TRUE)>> ELSE <<>>,
                             WorkerNodes |-> [i \in 1..Len(workers) |->
                                                Remembered(workers[i], FALSE)]]]

\* The provider call of IsClusterExist: describeInstances, a listing by tag.
IsClusterExistTerminates(live, ok) ==
  [op |-> "TerminateInstances", ids |-> IF ok THEN live ELSE {}, ok |-> ok]

IsClusterExistCall(live, ok) ==
  [op |-> "DescribeInstances", ids |-> IF ok THEN live ELSE {}, ok |-> ok]

ChkOthersUnchanged == UNCHANGED <<taskVars, mainVars, errVars, net, sg, syn, pager>>

\* CreateCheck up to the call of IsClusterExist.
CreateCheckStart ==
  /\ chk.pc = "options"
  /\ chk.p.op = "create"
  /\ chk' = IF CreateCheckOptions(chk.p) = "ok"
            THEN [chk EXCEPT !.pc = "exist"]
            ELSE [chk EXCEPT !.pc = "returned", !.ret = "error"]
  /\ ChkOthersUnchanged

\* CreateCheck from IsClusterExist (describeInstances) to its return.
CreateCheckIsClusterExist ==
  /\ chk.pc = "exist"
  /\ chk.p.op = "create"
  /\ \E ok \in BOOLEAN :
       chk' = [chk EXCEPT
                 !.calls = Append(@, IsClusterExistCall(chk.live, ok)),
                 !.pc = "returned",
                 !.ret = IF ok THEN CreateCheckDiscovered(chk.p, chk.live # {}) ELSE "error"]
  /\ ChkOthersUnchanged

\* joinCheck up to the call of IsClusterExist.
JoinCheckStart ==
  /\ chk.pc = "options"
  /\ chk.p.op = "join"
  /\ chk' = IF JoinCheckOptions(chk.p) = "ok"
            THEN [chk EXCEPT !.pc = "exist"]
            ELSE [chk EXCEPT !.pc = "returned", !.ret = "error"]
  /\ ChkOthersUnchanged

\* joinCheck from IsClusterExist to its return: the worker list is rewritten
\* when the cluster exists.
JoinCheckIsClusterExist ==
  /\ chk.pc = "exist"
  /\ chk.p.op = "join"
  /\ \E ok \in BOOLEAN :
       chk' = [chk EXCEPT
                 !.calls = Append(@, IsClusterExistCall(chk.live, ok)),
                 !.pc = "returned",
                 !.ret = IF ok /\ chk.live # {} THEN "ok" ELSE "error",
                 !.WorkerNodes = IF ok /\ chk.live # {}
                                 THEN LiveWorkers(@, chk.live) ELSE @]
  /\ ChkOthersUnchanged

ChkNext ==
  \/ CreateCheckStart
  \/ CreateCheckIsClusterExist
  \/ JoinCheckStart
  \/ JoinCheckIsClusterExist

SpecPreflight == ChkInit /\ [][ChkNext]_vars

\* ------------------------------------------- assembly and cluster sync
\* A cvm.Tag.
Tag(key, value) == [Key |-> key, Value |-> value]

MasterKey == <<"m", "a", "s", "t", "e", "r">>
WorkerKey == <<"w", "o", "r", "k", "e", "r">>
TrueValue == <<"t", "r", "u", "e">>

\* Values of p.Tags: no tag, a tag of another name, a tag named like the role
\* tag of a master.
UserTagSets ==
  { {}, {Tag(<<"e", "n", "v">>, <<"a">>)}, {Tag(<<"M", "a", "s", "t", "e", "r">>, <<"T", "R", "U", "E">>)} }

\* The tags runInstances puts on an instance, the autok3s and cluster tags
\* left out: the user's tags and the tag of the role.
InstanceTags(userTags, master) ==
  userTags \cup {Tag(IF master THEN MasterKey ELSE WorkerKey, TrueValue)}

\* The role assembly and cluster sync read from the tags of an instance.
TaggedMaster(tags) ==
  \E t \in tags : EqualFold(t.Key, MasterKey) /\ EqualFold(t.Value, TrueValue)

\* The states the provider may report for an instance of an earlier run.
InstanceStates == {"RUNNING", "STOPPED"}

\* types.Node with the fields assembly and sync read and write; SSH is
\* "complete", "incomplete" or "given" (the ssh of this invocation).
FullNode(id, master, rollBack, current, status, internal, public, ssh) ==
  [InstanceID |-> id, Master |-> master, RollBack |-> rollBack, Current |-> current,
   InstanceStatus |-> status, InternalIPAddress |-> internal,
   PublicIPAddress |-> public, SSH |-> ssh]

\* The addresses the provider reports for an instance, and the public address
\* a node list remembers from an earlier run.
PrivateIp(id) == <<id>>
PublicIp(id) == <<0 - id>>
EarlierPublicIp(id) == <<0 - (id + 100)>>

\* runInstances: the node stored for a returned id.
SynLaunched(id, master) ==
  FullNode(id, master, TRUE, FALSE, StatusPending, <<>>, <<>>, "")

\* getInstanceStatus: the status of every stored node becomes the aim.
SynAtAim(reg, aim) == [id \in DOMAIN reg |-> [reg[id] EXCEPT !.InstanceStatus = aim]]

\* assembleInstanceStatus: the node stored for an instance of the listing.
AssembledAllCurrent(reg, instance) ==
  IF instance.InstanceId \in DOMAIN reg
  THEN [reg[instance.InstanceId] EXCEPT
          !.Current = TRUE,
          !.InternalIPAddress = instance.PrivateIpAddresses,
          !.PublicIPAddress = instance.PublicIpAddresses,
          !.SSH = "given"]
  ELSE FullNode(instance.InstanceId, TaggedMaster(instance.Tags), FALSE, TRUE,
                StatusRunning, instance.PrivateIpAddresses,
                instance.PublicIpAddresses, "")

Assembled(reg, instance) ==
  IF instance.InstanceId \in DOMAIN reg
  THEN [reg[instance.InstanceId] EXCEPT
          !.Current = TRUE,
          !.InternalIPAddress = instance.PrivateIpAddresses,
          !.PublicIPAddress = instance.PublicIpAddresses,
          !.SSH = "given"]
  ELSE FullNode(instance.InstanceId, TaggedMaster(instance.Tags), FALSE, FALSE,
                StatusRunning, instance.PrivateIpAddresses,
                instance.PublicIpAddresses, "")

\* syncClusterInstance: the node stored for an instance of the listing.
SyncedEligible(instance) ==
  FullNode(instance.InstanceId, TaggedMaster(instance.Tags), TRUE, FALSE,
           instance.InstanceState, instance.PrivateIpAddresses,
           instance.PublicIpAddresses, "given")

Synced(instance) ==
  FullNode(instance.InstanceId, TaggedMaster(instance.Tags), FALSE, FALSE,
           instance.InstanceState, instance.PrivateIpAddresses,
           instance.PublicIpAddresses, "given")

\* The loops of assembleInstanceStatus and syncClusterInstance over the
\* listing.
RECURSIVE AssembleAll(_, _)
AssembleAll(reg, instanceList) ==
  IF instanceList = <<>> THEN reg
  ELSE AssembleAll(Store(reg, Head(instanceList).InstanceId,
                         Assembled(reg, Head(instanceList))),
                   Tail(instanceList))

RECURSIVE SyncAll(_, _)
SyncAll(reg, instanceList) ==
  IF instanceList = <<>> THEN reg
  ELSE SyncAll(Store(reg, Head(instanceList).InstanceId, Synced(Head(instanceList))),
               Tail(instanceList))

\* putil.IsExistedNodes(nodes, id): the index of the first node of that id, 0
\* when there is none.
IsExistedNodes(nodes, id) ==
  IF \E i \in 1..Len(nodes) : nodes[i].InstanceID = id
  THEN CHOOSE i \in 1..Len(nodes) :
         /\ nodes[i].InstanceID = id
         /\ \A j \in 1..(i - 1) : nodes[j].InstanceID # id
  ELSE 0

\* One call of the Range callback of syncNodeStatusWithInstance on node v: the
\* list of v's role after it.
SyncedNodes(nodes, v) ==
  IF IsExistedNodes(nodes, v.InstanceID) = 0 THEN Append(nodes, v)
  ELSE LET index == IsExistedNodes(nodes, v.InstanceID)
           node == nodes[index]
       IN [nodes EXCEPT ![index] =
             [node EXCEPT !.SSH = IF node.SSH = "incomplete" THEN "given" ELSE @,
                          !.InstanceStatus = v.InstanceStatus]]

\* syncNodeStatusWithInstance: the Range over p.m in the order it visits.
RECURSIVE SyncNodeStatusWithInstance(_, _, _)
SyncNodeStatusWithInstance(lists, reg, order) ==
  IF order = <<>> THEN lists
  ELSE LET v == reg[Head(order)] IN
       SyncNodeStatusWithInstance(
         IF v.Master
         THEN [lists EXCEPT !.MasterNodes = SyncedNodes(@, v)]
         ELSE [lists EXCEPT !.WorkerNodes = SyncedNodes(@, v)],
         reg, Tail(order))

\* The orders in which the Range of syncNodeStatusWithInstance may visit p.m,
\* up to the order of the visits that change one listed node in place: those
\* visits first, then the visits that append a node, in every order.
RangeOrders(lists, reg) ==
  LET appended == {id \in DOMAIN reg :
                     IsExistedNodes(IF reg[id].Master THEN lists.MasterNodes
                                    ELSE lists.WorkerNodes, id) = 0}
  IN {Ascending((DOMAIN reg) \ appended) \o order : order \in Perms(appended)}

\* The listing describeInstances returns: the cluster's instances by id.
InstanceListing(inst) ==
  [i \in 1..Cardinality(DOMAIN inst) |->
     LET id == Ascending(DOMAIN inst)[i] IN
     [InstanceId |-> id, Tags |-> inst[id].tags, InstanceState |-> inst[id].state,
      PrivateIpAddresses |-> PrivateIp(id), PublicIpAddresses |-> PublicIp(id)]]

\* The node a list remembers for an instance of an earlier run.
RememberedNode(id, master, ssh) ==
  FullNode(id, master, FALSE, FALSE, StatusRunning, PrivateIp(id), EarlierPublicIp(id), ssh)

\* JoinK3sNode: the nodes handed over as added, by role (in the order of the
\* Range, which the ids stand for).
JoinAdded(reg) ==
  [MasterNodes |-> {id \in DOMAIN reg : reg[id].Current /\ reg[id].Master},
   WorkerNodes |-> {id \in DOMAIN reg : reg[id].Current /\ ~reg[id].Master}]

\* Create, on a cluster without instances, and Join, on a cluster with some,
\* after the preflight check, or SSH: the instances of earlier runs, the
\* first of them a master, each remembered in the list of its role or not.
SynInit ==
  /\ TaskIdle
  /\ MainIdle
  /\ ErrIdle
  /\ NetIdle
  /\ SgIdle
  /\ ChkIdle
  /\ PagerIdle
  /\ \E e \in 0..MaxExisting + 1, op \in {"create", "join", "ssh"}, tags \in UserTagSets,
        master \in 0..MaxMaster, worker \in 0..MaxWorker :
     /\ op = "ssh" => master = 0 /\ worker = 0 /\ tags = {} /\ e > 0
     /\ op = "join" => e > 0 /\ master + worker >= 1
     /\ op = "create" => e = 0 /\ master >= 1
     /\ e + master + worker <= MaxNodes
     /\ \E states \in [1..e -> InstanceStates], earlier \in [1..e -> UserTagSets],
           known \in [1..e -> BOOLEAN], ssh \in [1..e -> {"complete", "incomplete"}] :
       /\ e > 0 => earlier[1] = {} /\ known[1]
       /\ \A i \in 1..e : ~known[i] => ssh[i] = "complete"
       /\ LET lists ==
                [MasterNodes |-> IF e > 0 THEN <<RememberedNode(1, TRUE, ssh[1])>> ELSE <<>>,
                 WorkerNodes |-> [k \in 1..Cardinality({i \in 2..e : known[i]}) |->
                                    RememberedNode(Ascending({i \in 2..e : known[i]})[k],
                                                   FALSE,
                                                   ssh[Ascending({i \in 2..e : known[i]})[k]])]]
          IN syn = [pc |-> IF op = "ssh" THEN "sync" ELSE "launch_m",
                    op |-> op, Tags |-> tags, master |-> master, worker |-> worker,
                    inst |-> [i \in 1..e |-> [master |-> i = 1,
                                              tags |-> InstanceTags(earlier[i], i = 1),
                                              state |-> states[i]]],
                    m |-> <<>>, lists |-> lists, before |-> lists,
                    launched |-> {}, first |-> [i \in 1..e |-> i = 1]]

SynOthersUnchanged == UNCHANGED <<taskVars, mainVars, errVars, net, sg, chk, pager>>

\* generateInstance: runInstances for one role, when its count is not 0.
SynRunInstances(master) ==
  /\ syn.pc = IF master THEN "launch_m" ELSE "launch_w"
  /\ LET num == IF master THEN syn.master ELSE syn.worker
         top == Cardinality(DOMAIN syn.inst)
         idSet == [i \in 1..num |-> top + i]
     IN \/ /\ num > 0
           /\ syn' = [syn EXCEPT !.pc = "failed"]
        \/ syn' = [syn EXCEPT
                  !.pc = IF master THEN "launch_w" ELSE "status",
                  !.inst = [i \in 1..(top + num) |->
                              IF i <= top THEN syn.inst[i]
                              ELSE [master |-> master,
                                    tags |-> InstanceTags(syn.Tags, master),
                                    state |-> StatusPending]],
                  !.m = [i \in (DOMAIN syn.m) \cup SeqToSet(idSet) |->
                           IF i \in DOMAIN syn.m THEN syn.m[i] ELSE SynLaunched(i, master)],
                  !.launched = @ \cup SeqToSet(idSet),
                  !.first = [i \in 1..(top + num) |->
                               IF i <= top THEN syn.first[i] ELSE master]]
  /\ SynOthersUnchanged

\* generateInstance: getInstanceStatus(StatusRunning) once every launched
\* instance runs.
SynGetInstanceStatus ==
  /\ syn.pc = "status"
  /\ syn' = [syn EXCEPT
               !.pc = "assemble",
               !.inst = [i \in DOMAIN syn.inst |->
                           IF i \in syn.launched
                           THEN [syn.inst[i] EXCEPT !.state = StatusRunning]
                           ELSE syn.inst[i]],
               !.m = SynAtAim(syn.m, StatusRunning)]
  /\ SynOthersUnchanged

\* assembleInstanceStatus: the listing, the loop over it, and
\* syncNodeStatusWithInstance.
SynAssembleInstanceStatus ==
  /\ syn.pc = "assemble"
  /\ LET reg == AssembleAll(syn.m, InstanceListing(syn.inst)) IN
     \E lists \in {SyncNodeStatusWithInstance(syn.lists, reg, order) :
                     order \in RangeOrders(syn.lists, reg)} :
       syn' = [syn EXCEPT !.pc = "done", !.m = reg, !.lists = lists]
  /\ SynOthersUnchanged

\* SSHK3sNode: syncClusterInstance.
SynSyncClusterInstance ==
  /\ syn.pc = "sync"
  /\ LET reg == SyncAll(syn.m, InstanceListing(syn.inst)) IN
     \E lists \in {SyncNodeStatusWithInstance(syn.lists, reg, order) :
                     order \in RangeOrders(syn.lists, reg)} :
       syn' = [syn EXCEPT !.pc = "synced", !.m = reg, !.lists = lists]
  /\ SynOthersUnchanged

\* SSHK3sNode run after a Create or Join has saved the node lists: a new provider, with
\* an empty p.m (NewProvider).
SynSSHAfterJoin ==
  /\ syn.pc = "done"
  /\ syn' = [syn EXCEPT !.pc = "sync", !.op = "ssh", !.m = <<>>, !.before = syn.lists,
                        !.launched = {}]
  /\ SynOthersUnchanged

SynNext ==
  \/ SynRunInstances(TRUE)
  \/ SynRunInstances(FALSE)
  \/ SynGetInstanceStatus
  \/ SynAssembleInstanceStatus
  \/ SynSyncClusterInstance
  \/ SynSSHAfterJoin

SpecSync == SynInit /\ [][SynNext]_vars

\* ------------------------------------------------------- all entry points
\* --------------------------------------------------------- describeInstances
\* request.Limit of describeInstances.
PageLimit == 20

\* The InstanceSet of the answer to a request with the given offset and
\* limit, when the instances 1..total carry the cluster's tags.
InstanceSet(total, offset, limit) ==
  [i \in 1..(IF offset >= total THEN 0
             ELSE IF offset + limit <= total THEN limit ELSE total - offset) |-> offset + i]

\* The offset of the next request after the page of the given index.
NextOffsetSamePage(limit, index) == limit * index

NextOffset(limit, index) == limit * index + limit

\* describeInstances for a cluster with any number of tagged instances.
PagerInit ==
  /\ TaskIdle
  /\ MainIdle
  /\ ErrIdle
  /\ NetIdle
  /\ SgIdle
  /\ ChkIdle
  /\ SynIdle
  /\ \E total \in 0..MaxListed :
       pager = [pc |-> "request", TotalCount |-> total, Offset |-> 0, index |-> 0,
                instanceList |-> <<>>, requests |-> 0, result |-> "none"]

\* describeInstances: one turn of the loop, which is one DescribeInstances
\* request, answered by an error or by a page.
DescribeInstancesPage ==
  /\ pager.pc = "request"
  /\ \E ok \in BOOLEAN :
       IF ~ok
       THEN pager' = [pager EXCEPT !.pc = "returned", !.requests = @ + 1,
                                   !.instanceList = <<>>, !.result = "error"]
       ELSE LET set == InstanceSet(pager.TotalCount, pager.Offset, PageLimit)
                offset == NextOffset(PageLimit, pager.index)
            IN IF Len(set) = 0
               THEN pager' = [pager EXCEPT !.pc = "returned", !.requests = @ + 1,
                                           !.result = "ok"]
               ELSE pager' = [pager EXCEPT
                                !.pc = IF offset >= pager.TotalCount THEN "returned"
                                       ELSE "request",
                                !.requests = @ + 1,
                                !.instanceList = @ \o set,
                                !.index = @ + 1,
                                !.Offset = IF offset >= pager.TotalCount THEN @ ELSE offset,
                                !.result = IF offset >= pager.TotalCount THEN "ok" ELSE "none"]
  /\ UNCHANGED <<taskVars, mainVars, errVars, net, sg, chk, syn>>

PagerNext == DescribeInstancesPage

SpecPager == PagerInit /\ [][PagerNext]_vars

Init ==
  TaskInit \/ CreateInit \/ DeleteInit \/ NetInit \/ SgInit \/ ChkInit \/ SynInit \/ PagerInit

Next ==
  TaskNext \/ CreateNext \/ DeleteNext \/ NetNext \/ SgNext \/ ChkNext \/ SynNext \/ PagerNext

Spec == Init /\ [][Next]_vars

\* The workflows that wait: Create and Join with their Rollback, and Delete.
WorkflowInit == CreateInit \/ DeleteInit

WorkflowNext == CreateNext \/ DeleteNext

SpecWorkflows == WorkflowInit /\ [][WorkflowNext]_vars

\* ------------------------------------------------------------- properties
\* The positions of the log that hold a call of the given operation.
CallsOf(op) == {i \in 1..Len(calls) : calls[i].op = op}

\* Whether the log was written by Rollback.
InRollback == Len(calls) > 0 /\ calls[1].op = "Rollback"

\* Whether, before position i of the log, address a was disassociated by a
\* call that succeeded and whose task, when it started one, was then polled
\* to Done.
DisassociationConfirmed(a, i) ==
  \E j \in 1..(i - 1) :
    /\ calls[j].op = "DisassociateAddress"
    /\ calls[j].ids = {a}
    /\ calls[j].res = "ok"
    /\ \/ calls[j].task = 0
       \/ \E k \in (j + 1)..(i - 1) :
            /\ calls[k].op = "DescribeTaskResult"
            /\ calls[k].task = calls[j].task
            /\ calls[k].res = "ok"

\* C1: in Delete and in Rollback, a ReleaseAddresses call is issued only
\* after the disassociation of every address it names succeeded and its task
\* was polled to Done; it is not issued after a disassociation call failed or
\* a disassociation task failed or timed out.
C1_ReleaseAfterDisassociation ==
  \A i \in CallsOf("ReleaseAddresses") :
    \A a \in calls[i].ids : DisassociationConfirmed(a, i)

\* C2: a forced Delete of a cluster that has tagged instances never returns
\* success without having issued the terminate call for all of them, whatever
\* earlier step failed.
C2_ForcedDeleteTerminates ==
  (pc = "del_done" /\ cfg.force /\ ret.delete = "ok" /\ loc.ids # {}) =>
    \E i \in CallsOf("TerminateInstances") : calls[i].ids = loc.ids

\* C3: Rollback does not return success after one of its compensation
\* sub-steps failed: the address query, a disassociation call or task, the
\* release call or task (a terminate call that failed and was retried with
\* success is not a failed sub-step).
C3_RollbackReportsFailure ==
  (InRollback /\ ret.rollback = "ok") =>
    \A i \in 1..Len(calls) :
      calls[i].op # "TerminateInstances" => calls[i].res = "ok"

\* The compensation calls: what only Rollback and Delete issue.
CompensationOps == {"DisassociateAddress", "ReleaseAddresses", "TerminateInstances"}

C5_RollbackTerminatesEligible ==
  InRollback =>
    /\ \A i \in CallsOf("TerminateInstances") :
         /\ calls[i].ids = {id \in DOMAIN m : m[id].RollBack}
         /\ calls[i].ids = hist.launched
    /\ calls[1].res = "ok" /\ {id \in DOMAIN m : m[id].RollBack} = {} => Len(calls) = 1

C5_Witness ==
  /\ InRollback
  /\ ret.rollback = "ok"
  /\ \E i \in CallsOf("TerminateInstances") : calls[i].res = "ok"
  /\ \E id \in DOMAIN m : ~m[id].RollBack
  /\ hist.launched # {}

\* A step of runInstances whose RunInstances response carried no error.
LaunchAnswered ==
  /\ pc \in {"gi_masters", "gi_workers"}
  /\ Len(calls') = Len(calls) + 1
  /\ calls'[Len(calls')].op = "RunInstances"
  /\ calls'[Len(calls')].res = "ok"

\* C6: a launch of N instances whose response carries M ids, M different
\* from N and no provider error, fails, and leaves the registry exactly as it
\* was: none of the M ids is inserted.
C6_PartialLaunchFails ==
  [][LaunchAnswered /\ Cardinality(calls'[Len(calls')].ids) # calls'[Len(calls')].arg =>
       /\ ret'.create = "error"
       /\ pc' = "failed"
       /\ m' = m
       /\ calls'[Len(calls')].ids \cap DOMAIN m' = {}]_vars

C6_Witness ==
  /\ pc = "failed"
  /\ ret.create = "error"
  /\ calls[Len(calls)].op = "RunInstances"
  /\ calls[Len(calls)].res = "ok"
  /\ Cardinality(calls[Len(calls)].ids) > 0
  /\ Cardinality(calls[Len(calls)].ids) < calls[Len(calls)].arg
  /\ DOMAIN m # {}

\* C7: when a launch of N instances succeeds, each of the N returned ids is
\* in the registry with status Pending, flagged rollback-eligible, with the
\* role of the call; and every entry the registry held before is unchanged.
C7_LaunchStoresBatch ==
  [][LaunchAnswered /\ Cardinality(calls'[Len(calls')].ids) = calls'[Len(calls')].arg =>
       /\ ret'.create = ret.create
       /\ \A id \in calls'[Len(calls')].ids :
            /\ id \in DOMAIN m'
            /\ m'[id].InstanceID = id
            /\ m'[id].InstanceStatus = StatusPending
            /\ m'[id].RollBack
            /\ m'[id].Master = calls'[Len(calls')].master
       /\ \A id \in DOMAIN m : id \in DOMAIN m' /\ m'[id] = m[id]
       /\ DOMAIN m' = DOMAIN m \cup calls'[Len(calls')].ids]_vars

C7_Witness ==
  /\ pc = "gi_wait"
  /\ calls[Len(calls)].op = "RunInstances"
  /\ ~calls[Len(calls)].master
  /\ cfg.worker > 1
  /\ Cardinality({id \in DOMAIN m : ~m[id].Master /\ m[id].RollBack
                                     /\ m[id].InstanceStatus = StatusPending}) = cfg.worker
  /\ \E id \in DOMAIN m : m[id].Master /\ m[id].RollBack

\* C8: when allocateEIPForInstance returns without error, each node of the
\* role that lacked a public address has exactly one floating address
\* recorded, the provider has that address bound to that node, no address is
\* recorded for two nodes, and the nodes of the other role are untouched, for
\* every visiting order of the registry.
C8_PairingCorrect ==
  [][pc = "eip_pair" /\ pc' \in {"eip_alloc", "eip_tasks"} =>
       LET lacking == {i \in DOMAIN m : m[i].Master = loc.role /\ m[i].PublicIPNil} IN
         /\ \A i \in lacking :
              /\ Len(m'[i].EipAllocationIds) = 1
              /\ cloudEip'[m'[i].EipAllocationIds[1]].inst = i
         /\ \A i, j \in lacking :
              i # j => m'[i].EipAllocationIds # m'[j].EipAllocationIds
         /\ \A i \in DOMAIN m : m[i].Master # loc.role => m'[i] = m[i]]_vars

\* C11: the wait for the instances returns success only when every instance
\* that was in the registry at the start of the wait is at the target status:
\* on success every registry entry has status Running, none is left Pending.
C11_WaitSucceedsOnlyAllRunning ==
  [][pc = "gi_wait" /\ pc' = "eip_alloc" =>
       /\ DOMAIN m' = DOMAIN m
       /\ \A i \in DOMAIN m : m'[i].InstanceStatus = StatusRunning]_vars

\* C12: a wait that exhausts its attempts returns a timeout failure carrying
\* the context of that same wait (its own instance ids or task id), never
\* the context an earlier or different wait wrote, for every sequence of waits
\* within Create, Join, Rollback and Delete.
C12_TimeoutCarriesOwnContext ==
  timeoutErr # NoTimeout => timeoutErr.err = timeoutErr.wait

C12_Witness ==
  /\ pc = "failed"
  /\ timeoutErr.wait.wait = "describeVpcTaskResult"
  /\ timeoutErr.wait.task > 1
  /\ \E i \in CallsOf("WaitInstances") : calls[i].res = "ok"
  /\ \E i \in CallsOf("DescribeTaskResult") : calls[i].res = "ok"

\* The calls of configNetwork's run r that create something.
NetCreates(r) ==
  {i \in 1..Len(net.calls) :
     net.calls[i].run = r /\ net.calls[i].op \in {"CreateVpc", "CreateSubnet"}}

\* C13: configNetwork invoked twice in a row ends both times with the same
\* network and subnet identifiers, and the second invocation issues no
\* CreateVpc and no CreateSubnet call.
C13_NetworkIdempotent ==
  (net.pc = "done" /\ net.run = 2) =>
    /\ net.VpcID = net.first.VpcID
    /\ net.SubnetID = net.first.SubnetID
    /\ NetCreates(2) = {}

\* C14: when configNetwork reuses a network, the subnet it ends with belongs
\* to that network: a tagged subnet of the default name in another network is
\* never selected, and a subnet is created in the reused network when it has
\* none.
C14_SubnetInReusedNetwork ==
  (net.pc = "done" /\ net.reused) =>
    /\ net.SubnetID \in DOMAIN net.subnets
    /\ net.subnets[net.SubnetID] = net.VpcID

\* What the wait contract calls one poll's answer: NotYetDone, Done or
\* TerminalFailure, results compared without regard to case.
SameFold(a, b) ==
  /\ Len(a) = Len(b)
  /\ \A i \in 1..Len(a) : ToUpperChar(a[i]) = ToUpperChar(b[i])

PollClass(answer) ==
  IF answer.err THEN "NotYetDone"
  ELSE IF SameFold(answer.Result, Running) THEN "NotYetDone"
  ELSE IF SameFold(answer.Result, Failed) THEN "TerminalFailure"
  ELSE "Done"

\* The first poll whose answer is terminal, 0 when none is.
FirstTerminal(script) ==
  IF \E k \in 1..MaxAttempts : PollClass(script[k]) # "NotYetDone"
  THEN CHOOSE k \in 1..MaxAttempts :
         /\ PollClass(script[k]) # "NotYetDone"
         /\ \A j \in 1..(k - 1) : PollClass(script[j]) = "NotYetDone"
  ELSE 0

\* C9: the wait makes exactly k polls and fails when the k-th poll is the
\* first terminal one and reports Failed, exactly k polls and succeeds when
\* it reports Success (or anything else terminal), and exactly MaxAttempts
\* polls and times out when no poll is terminal.
C9_ExactPolls ==
  taskPc = "returned" =>
    LET k == FirstTerminal(taskScript) IN
      IF k = 0 THEN taskCalls = MaxAttempts /\ taskResult = "timeout"
      ELSE /\ taskCalls = k
           /\ taskResult =
                (IF PollClass(taskScript[k]) = "TerminalFailure" THEN "failed" ELSE "ok")

C9_Witness ==
  /\ taskPc = "returned"
  /\ taskResult = "failed"
  /\ taskCalls = 3
  /\ taskScript[1].err
  /\ taskScript[2].Result = Running

\* C10: a first poll answering Running (in any case) is NotYetDone (the wait
\* polls again or, with a budget of one, times out), Success is Done, Failed
\* is TerminalFailure, and any other result value is Done.
C10_ResultMapping ==
  taskPc = "returned" /\ ~taskScript[1].err =>
    LET r == taskScript[1].Result IN
      IF SameFold(r, Running) THEN taskCalls > 1 \/ taskResult = "timeout"
      ELSE IF SameFold(r, Failed) THEN taskCalls = 1 /\ taskResult = "failed"
      ELSE taskCalls = 1 /\ taskResult = "ok"

C10_Witness ==
  /\ taskPc = "returned"
  /\ taskScript[1] = [err |-> FALSE, Result |-> <<"D", "O", "N", "E">>]
  /\ taskResult = "ok"
  /\ taskCalls = 1

\* ---------------------------------------------------------------- C15..C19
SgCreateRuleCalls ==
  { i \in 1..Len(sg.calls) : sg.calls[i].op = "CreateSecurityGroupPolicies" }

\* A batch as the set of its <<protocol, port number>> pairs.
BatchPorts(batch) ==
  { <<batch[i].Protocol, Atoi(batch[i].Port)>> : i \in 1..Len(batch) }

RequiredPorts(network, ui) ==
  { <<"TCP", 22>>, <<"TCP", 6443>>, <<"TCP", 10250>>, <<"TCP", 2379>>, <<"TCP", 2380>> }
  \cup (IF network \in {"", "vxlan"} THEN { <<"UDP", 8472>> } ELSE {})
  \cup (IF ui THEN { <<"TCP", 8999>> } ELSE {})

\* Whether the rules hold the required port: any rule naming it, and for the
\* datastore ports one from the subnet's block or from any source.
HoldsRequired(rules, req, cidr) ==
  \E rule \in rules :
    /\ rule.Protocol = req[1]
    /\ NamesPort(rule, req[2])
    /\ req[2] \in {2379, 2380} => rule.CidrBlock \in {cidr, ipRange}

SgHadAllRequired ==
  /\ sg.before.group
  /\ \A req \in RequiredPorts(sg.Network, sg.UI) :
       HoldsRequired(sg.before.ingress, req, sg.cidr)
  /\ sg.before.egress # {}

SgWasEmpty == sg.before.ingress = {} /\ sg.before.egress = {}

\* C15: a run that ends on a group which already held every required ingress
\* rule and an egress rule issued no CreateSecurityGroupPolicies call; a run
\* that ends on an empty group issued exactly two, first one ingress batch of
\* exactly 22, 6443, 10250, 2379, 2380 over TCP, 8472 over UDP iff the network
\* mode is "" or "vxlan" and 8999 over TCP iff the UI is enabled, then one
\* allow-all egress rule.
C15_ReconcileRules ==
  sg.pc = "done" =>
    /\ SgHadAllRequired => SgCreateRuleCalls = {}
    /\ SgWasEmpty =>
         \E i, j \in SgCreateRuleCalls :
           /\ i < j
           /\ SgCreateRuleCalls = {i, j}
           /\ sg.calls[i].arg.Egress = <<>>
           /\ BatchPorts(sg.calls[i].arg.Ingress) = RequiredPorts(sg.Network, sg.UI)
           /\ Len(sg.calls[i].arg.Ingress) = Cardinality(RequiredPorts(sg.Network, sg.UI))
           /\ sg.calls[j].arg.Ingress = <<>>
           /\ sg.calls[j].arg.Egress = <<Policy("ALL", PortAll, ipRange)>>

C15_Witness ==
  /\ sg.pc = "done"
  /\ SgHadAllRequired
  /\ sg.UI
  /\ sg.Network = "vxlan"
  /\ Len(sg.calls) = 3

\* Whether the rules the group held name the port, for the datastore ports
\* from the subnet's block or from any source.
HeldPort(port) ==
  \E rule \in sg.before.ingress :
    /\ NamesPort(rule, port)
    /\ port \in {2379, 2380} => rule.CidrBlock \in {sg.cidr, ipRange}

SgMissing ==
  { req \in RequiredPorts(sg.Network, sg.UI) : ~HeldPort(req[2]) }

SgIngressBatches ==
  { i \in SgCreateRuleCalls : sg.calls[i].arg.Ingress # <<>> }

\* C16: every ingress batch issued contains exactly the required ports the
\* group was missing, each once; a required port the group held (2379 and 2380:
\* held from the subnet's block or from any source) is not in the batch.
C16_BatchIsExactlyMissing ==
  \A i \in SgIngressBatches :
    /\ BatchPorts(sg.calls[i].arg.Ingress) = SgMissing
    /\ Len(sg.calls[i].arg.Ingress) = Cardinality(SgMissing)

\* C17: the datastore rules (2379, 2380) of every ingress batch are scoped to
\* the block of the provisioned subnet when the lookup answered with one, and to
\* any source (0.0.0.0/0) when there is no subnet id or the lookup gave no block.
C17_DatastoreScope ==
  \A i \in SgIngressBatches :
    \A k \in 1..Len(sg.calls[i].arg.Ingress) :
      LET rule == sg.calls[i].arg.Ingress[k] IN
      Atoi(rule.Port) \in {2379, 2380} =>
        rule.CidrBlock = IF sg.answer.set = "subnet" THEN sg.answer.CidrBlock
                         ELSE ipRange

SgEgressCalls ==
  { i \in SgCreateRuleCalls : sg.calls[i].arg.Egress # <<>> }

\* C18: a run that ends has added one allow-all egress rule, in one call, when
\* the group held no egress rule, and no egress rule when it held one, whatever
\* ingress rules it held and whether its ingress set was absent or empty.
C18_EgressIffNone ==
  sg.pc = "done" =>
    /\ sg.before.egress = {} =>
         \E i \in SgEgressCalls :
           /\ SgEgressCalls = {i}
           /\ sg.calls[i].arg.Egress = <<Policy("ALL", PortAll, ipRange)>>
    /\ sg.before.egress # {} => SgEgressCalls = {}

SgAdditiveOps ==
  { "DescribeSecurityGroups", "CreateSecurityGroup", "DescribeSecurityGroupPolicies",
    "DescribeSubnets", "CreateSecurityGroupPolicies" }

\* C19: security group reconciliation only describes and creates: every call is
\* a describe or a create call, a group that existed still exists, and every
\* ingress and egress rule the group held before is still in the group.
C19_AdditiveOnly ==
  /\ \A i \in 1..Len(sg.calls) : sg.calls[i].op \in SgAdditiveOps
  /\ sg.before.group => sg.group
  /\ sg.before.ingress \subseteq sg.ingress
  /\ sg.before.egress \subseteq sg.egress

C19_Witness ==
  /\ sg.pc = "done"
  /\ sg.before.ingress # {}
  /\ sg.before.egress # {}
  /\ SgIngressBatches # {}
  /\ sg.ingress # sg.before.ingress

\* ---------------------------------------------------------------------- C20
AddressingOps ==
  { "AllocateAddresses", "AssociateAddress", "DescribeAddresses",
    "DisassociateAddress", "ReleaseAddresses" }

\* The roles of the RunInstances calls, in the order of the log.
LaunchRoles == [i \in 1..Cardinality(CallsOf("RunInstances")) |->
                  calls[Ascending(CallsOf("RunInstances"))[i]].master]

\* C20: a Create of M masters and W workers with EIP disabled that succeeds
\* has issued exactly one RunInstances call per role with a nonzero count, the
\* masters' before the workers', no addressing call, and ends with exactly
\* M + W registry entries, all Running.
C20_CreateWithoutEip ==
  (pc = "done" /\ cfg.op = "create" /\ ~cfg.eip) =>
    /\ LaunchRoles = (IF cfg.master > 0 THEN <<TRUE>> ELSE <<>>)
                     \o (IF cfg.worker > 0 THEN <<FALSE>> ELSE <<>>)
    /\ \A i \in CallsOf("RunInstances") :
         calls[i].arg = IF calls[i].master THEN cfg.master ELSE cfg.worker
    /\ \A i \in 1..Len(calls) : calls[i].op \notin AddressingOps
    /\ Cardinality(DOMAIN m) = cfg.master + cfg.worker
    /\ \A id \in DOMAIN m : m[id].InstanceStatus = StatusRunning

\* ---------------------------------------------------------------------- C21
\* The waits of the log on the task a call of the log returned.
WaitsOn(i) ==
  { w \in CallsOf("DescribeTaskResult") : w > i /\ calls[w].task = calls[i].task }

\* A Delete past its provider calls whose instance discovery and tag query
\* answered, on a cluster that owns instances.
DeleteListed ==
  /\ cfg.op = "delete"
  /\ pc \in {"del_cleanup", "del_done"}
  /\ Len(calls) >= 2
  /\ calls[1].ids # {}
  /\ calls[2].res = "ok"

\* C21: in every Delete each disassociate call comes before every wait, every
\* wait on a disassociation task before the release call, the release call
\* before the wait on its task and that wait before the terminate call.  A
\* Delete whose discovery and tag query answered, on a cluster of A tagged
\* addresses and I tagged instances, has issued one disassociate call per address, one wait per
\* task those calls returned, one release call naming all A addresses, one wait
\* on the release task and one terminate call naming all I instances.
C21_DeleteOrder ==
  cfg.op = "delete" =>
    /\ \A d \in CallsOf("DisassociateAddress") :
         \A x \in CallsOf("DescribeTaskResult") \cup CallsOf("ReleaseAddresses")
                  \cup CallsOf("TerminateInstances") : d < x
    /\ \A r \in CallsOf("ReleaseAddresses") :
         /\ \A d \in CallsOf("DisassociateAddress") :
              calls[d].task # 0 => \E w \in WaitsOn(d) : w < r
         /\ \A t \in CallsOf("TerminateInstances") :
              \E w \in CallsOf("DescribeTaskResult") :
                r < w /\ w < t /\ calls[w].task = calls[r].task
    /\ DeleteListed =>
         LET I == calls[1].ids
             A == calls[2].ids
         IN /\ \A a \in A :
                 Cardinality({d \in CallsOf("DisassociateAddress") : calls[d].ids = {a}}) = 1
            /\ Cardinality(CallsOf("DisassociateAddress")) = Cardinality(A)
            /\ \A d \in CallsOf("DisassociateAddress") :
                 calls[d].task # 0 => Cardinality(WaitsOn(d)) = 1
            /\ A # {} =>
                 \E r \in CallsOf("ReleaseAddresses") :
                   /\ CallsOf("ReleaseAddresses") = {r}
                   /\ calls[r].ids = A
                   /\ Cardinality(WaitsOn(r)) = 1
            /\ \E t \in CallsOf("TerminateInstances") :
                 /\ CallsOf("TerminateInstances") = {t}
                 /\ calls[t].ids = I
                 /\ t = Len(calls)

C21_Witness ==
  /\ DeleteListed
  /\ ret.delete = "ok"
  /\ faults = 0
  /\ Cardinality(calls[1].ids) = MaxTagged
  /\ Cardinality(calls[2].ids) = MaxTagged
  /\ \A d \in CallsOf("DisassociateAddress") : calls[d].task # 0

\* ---------------------------------------------------------------- C22, C23
\* The configurations preflight validation of Create must reject.
MasterCountInvalid(p) == AtoiErr(p.Master) \/ Atoi(p.Master) < 1

RejectedByCreate(p, live) ==
  \/ MasterCountInvalid(p)
  \/ ~MasterCountInvalid(p) /\ Atoi(p.Master) > 1 /\ ~p.Cluster /\ ~p.DataStore
  \/ Contains(p.MasterExtraArgs, DatastoreEndpointFlag) /\ p.DataStore
  \/ p.Region # defaultRegion /\ p.Zone = defaultZone /\ ~p.VpcID
  \/ p.CloudControllerManager /\ ~p.NetworkRouteTableName
  \/ live # {}

\* C22: CreateCheck returns an error for a master count below 1 or not a
\* number, a master count above 1 with neither the clustering flag nor a
\* datastore, a datastore endpoint given twice, a non-default region with the
\* default zone and no network id, a cloud controller manager without a
\* route-table name, and a cluster that already owns instances.
C22_CreateCheckRejects ==
  (chk.pc = "returned" /\ chk.p.op = "create" /\ RejectedByCreate(chk.p, chk.live)) =>
    chk.ret = "error"

C22_Witness ==
  /\ chk.pc = "returned"
  /\ chk.p.op = "create"
  /\ chk.ret = "error"
  /\ CreateCheckOptions(chk.p) = "ok"
  /\ Len(chk.calls) = 1
  /\ chk.calls[1].ok
  /\ chk.live = {}
  /\ chk.p.CloudControllerManager
  /\ ~chk.p.NetworkRouteTableName
  /\ chk.p.Region = defaultRegion

\* C23: CreateCheck, accepting or rejecting, makes no provider call other
\* than the instance discovery (DescribeInstances), and leaves the node
\* registry and the remembered master and worker lists as they were.
C23_CreateCheckNoSideEffects ==
  chk.p.op = "create" =>
    /\ \A i \in 1..Len(chk.calls) : chk.calls[i].op = "DescribeInstances"
    /\ chk.m = <<>>
    /\ chk.MasterNodes = chk.before.MasterNodes
    /\ chk.WorkerNodes = chk.before.WorkerNodes

C23_Witness ==
  /\ chk.pc = "returned"
  /\ chk.p.op = "create"
  /\ chk.ret = "ok"
  /\ Len(chk.calls) = 1

\* ---------------------------------------------------------------------- C27
WorkerIsLive(w) == w.InstanceID \in chk.live

\* C27: joinCheck returns an error when the cluster owns no instance at the
\* provider or when both counts are "0"; when it succeeds the worker list is
\* the earlier worker list without the entries whose instance is not live, in
\* the earlier order, and the master list is as it was.
C27_JoinCheck ==
  (chk.pc = "returned" /\ chk.p.op = "join") =>
    /\ (chk.live = {} \/ (chk.p.Master = <<"0">> /\ chk.p.Worker = <<"0">>)) =>
         chk.ret = "error"
    /\ chk.ret = "ok" =>
         /\ chk.WorkerNodes = SelectSeq(chk.before.WorkerNodes, WorkerIsLive)
         /\ chk.MasterNodes = chk.before.MasterNodes

C27_Witness ==
  /\ chk.pc = "returned"
  /\ chk.p.op = "join"
  /\ chk.ret = "ok"
  /\ Len(chk.before.WorkerNodes) = 2
  /\ Len(chk.WorkerNodes) = 1
  /\ chk.WorkerNodes[1] = chk.before.WorkerNodes[2]

\* C24: in the registry, rollbackEligible is true only on the entries of the
\* instances a launch batch of this invocation returned; the entries that
\* assembly and cluster sync make for discovered instances have it false.
C24_RollbackEligible ==
  syn.pc # "off" =>
    \A id \in DOMAIN syn.m : syn.m[id].RollBack <=> id \in syn.launched

C24_Witness ==
  /\ syn.pc = "done"
  /\ \E id \in DOMAIN syn.m : syn.m[id].RollBack /\ syn.m[id].Current
  /\ \E id \in DOMAIN syn.m : ~syn.m[id].RollBack /\ id \notin syn.launched

\* C25: the role of a registry entry never changes after it is first set: an
\* instance recorded as Master at its launch is Master in every entry made for
\* it by launch, status polling, assembly and cluster sync, and one recorded as
\* Worker is Worker, whatever user tags it carries.
C25_RoleNeverChanges ==
  syn.pc # "off" =>
    \A id \in DOMAIN syn.m : syn.m[id].Master = syn.first[id]

\* C26: the entry that discovery makes for an instance that is not in the
\* registry has the state the provider reports for that instance as its
\* status, current false and rollbackEligible false, in assembly as in cluster
\* sync.
C26_DiscoveredEntry ==
  syn.pc \in {"done", "synced"} =>
    \A id \in DOMAIN syn.m :
      id \notin syn.launched =>
        /\ syn.m[id].InstanceStatus = syn.inst[id].state
        /\ ~syn.m[id].Current
        /\ ~syn.m[id].RollBack

\* A node of a list before the Join is at the same place of the list after
\* it, with the same role and addresses and, when they were complete, the same
\* SSH settings.
KeptIn(before, after) ==
  /\ Len(after) >= Len(before)
  /\ \A i \in 1..Len(before) :
       /\ after[i].InstanceID = before[i].InstanceID
       /\ after[i].Master = before[i].Master
       /\ after[i].InternalIPAddress = before[i].InternalIPAddress
       /\ after[i].PublicIPAddress = before[i].PublicIPAddress
       /\ before[i].SSH = "complete" => after[i].SSH = "complete"

\* The nodes a Join appended to a list are the instances it launched for the
\* role, one each.
AppendedAreLaunched(before, after, master) ==
  /\ Len(after) = Len(before) + Cardinality({id \in syn.launched : syn.first[id] = master})
  /\ \A i \in (Len(before) + 1)..Len(after) :
       after[i].InstanceID \in syn.launched /\ syn.first[after[i].InstanceID] = master

JoinKeeps ==
  (syn.pc = "done" /\ syn.op = "join") =>
    /\ KeptIn(syn.before.MasterNodes, syn.lists.MasterNodes)
    /\ KeptIn(syn.before.WorkerNodes, syn.lists.WorkerNodes)

\* C28: after a successful Join every node that was in the master or worker
\* list is still in that list with the same role, addresses and complete SSH
\* settings, exactly the asked count of instances was launched per role, and
\* exactly those were appended to the list of their role.
C28_JoinMerges ==
  (syn.pc = "done" /\ syn.op = "join") =>
    /\ JoinKeeps
    /\ Cardinality({id \in syn.launched : syn.first[id]}) = syn.master
    /\ Cardinality({id \in syn.launched : ~syn.first[id]}) = syn.worker
    /\ AppendedAreLaunched(syn.before.MasterNodes, syn.lists.MasterNodes, TRUE)
    /\ AppendedAreLaunched(syn.before.WorkerNodes, syn.lists.WorkerNodes, FALSE)

\* A Rollback that has ids to roll back and has come to its end.
RollbackRan ==
  /\ pc \in {"rb_cleanup", "rb_done"}
  /\ Len(calls) >= 1 /\ calls[1].op = "Rollback" /\ calls[1].res = "ok"
  /\ calls[1].ids # {}

\* An address step of Rollback that failed.
AddressStepFailed(c) ==
  \/ c.op \in {"DescribeAddresses", "DisassociateAddress", "ReleaseAddresses"} /\ c.res = "err"
  \/ c.op = "DescribeTaskResult" /\ c.res # "ok"

\* C30: Rollback is not cut short by a failing address step: whatever the
\* address query, the disassociation calls and tasks and the release call and
\* task answered, every address the query returned gets its disassociation
\* call, every returned task and the release are waited on, the release call
\* is made, and TerminateInstances is tried on the rollback-eligible
\* instances.
C30_RollbackNotShortCircuited ==
  RollbackRan =>
    /\ \E i \in 1..Len(calls) :
         calls[i].op = "TerminateInstances" /\ calls[i].ids = calls[1].ids
    /\ cfg.eip =>
         /\ calls[2].op = "DescribeAddresses"
         /\ \A k \in 1..Len(loc.eips) :
              \E i \in 1..Len(calls) :
                calls[i].op = "DisassociateAddress" /\ calls[i].ids = {loc.eips[k]}
         /\ \A i \in 1..Len(calls) :
              (calls[i].op = "DisassociateAddress" /\ calls[i].res = "ok" /\ calls[i].task # 0) =>
                \E j \in (i + 1)..Len(calls) :
                  calls[j].op = "DescribeTaskResult" /\ calls[j].task = calls[i].task
         /\ \E i \in 1..Len(calls) :
              /\ calls[i].op = "ReleaseAddresses"
              /\ calls[i].ids = SeqToSet(loc.eips)
              /\ i < Len(calls) /\ calls[i + 1].op = "DescribeTaskResult"

C30_Witness ==
  /\ RollbackRan
  /\ cfg.eip
  /\ \E i \in 1..Len(calls) :
       /\ AddressStepFailed(calls[i])
       /\ \E j \in (i + 1)..Len(calls) :
            calls[j].op = "DisassociateAddress" \/ calls[j].op = "ReleaseAddresses"
       /\ \E j \in (i + 1)..Len(calls) :
            calls[j].op = "TerminateInstances" /\ calls[j].res = "ok"

\* The calls of a running or returned generateInstance (Rollback starts a
\* log of its own).
InGenerateInstance ==
  cfg.op \in {"create", "join"} /\ (calls = <<>> \/ calls[1].op # "Rollback")

LaunchBeforeNetwork ==
  \E i, j \in 1..Len(calls) :
    /\ i < j
    /\ calls[i].op = "RunInstances"
    /\ calls[j].op \in {"ConfigNetwork", "ConfigSecurityGroup"}

AllocationBeforeRunning ==
  /\ \E i \in 1..Len(calls) : calls[i].op = "AllocateAddresses"
  /\ \E id \in hist.launched : cloudInst[id].state # StatusRunning

AssemblyBeforeTasks ==
  \E j \in 1..Len(calls) :
    /\ calls[j].op = "DescribeInstances"
    /\ \E i \in 1..Len(calls) :
         /\ calls[i].op = "AssociateAddress" /\ calls[i].res = "ok"
         /\ ~\E k \in (i + 1)..(j - 1) :
              /\ calls[k].op = "DescribeTaskResult"
              /\ calls[k].task = calls[i].task
              /\ calls[k].res = "ok"

PhaseAfterFailure ==
  \E i, j \in 1..Len(calls) :
    /\ i < j
    /\ calls[i].res # "ok"
    /\ calls[j].op \in {"ConfigSecurityGroup", "RunInstances", "WaitInstances",
                        "AllocateAddresses", "DescribeInstances"}

\* C29: in a Create or Join no launch is issued before the network and
\* security group steps, no address is allocated while a launched instance is
\* not Running, assembly does not start before every association task has
\* resolved, and no phase follows a failed step.
C29_PhaseOrder ==
  InGenerateInstance =>
    /\ ~LaunchBeforeNetwork
    /\ ~AllocationBeforeRunning
    /\ ~AssemblyBeforeTasks
    /\ ~PhaseAfterFailure

\* The terminate calls of the log that failed.
FailedTerminates == {i \in CallsOf("TerminateInstances") : calls[i].res # "ok"}

\* C31: Rollback issues at most 5 terminate calls, none after one that
\* succeeded, and when all 5 fail it returns the timeout failure that names
\* the rollback-eligible instance ids; a Rollback that has returned with ids
\* to terminate either saw a terminate call succeed or made all 5.
C31_BoundedTerminateRetry ==
  InRollback =>
    /\ Cardinality(CallsOf("TerminateInstances")) <= RollbackSteps
    /\ \A i \in CallsOf("TerminateInstances") :
         calls[i].res = "ok" => \A j \in (i + 1)..Len(calls) : calls[j].op # "TerminateInstances"
    /\ Cardinality(FailedTerminates) = RollbackSteps =>
         /\ pc = "rb_done"
         /\ ret.rollback = "error"
         /\ timeoutErr.err = WaitCtx("Rollback", calls[1].ids, 0)
    /\ (pc = "rb_done" /\ calls[1].res = "ok" /\ calls[1].ids # {}) =>
         \/ \E i \in CallsOf("TerminateInstances") : calls[i].res = "ok"
         \/ Cardinality(FailedTerminates) = RollbackSteps

C31_Witness ==
  /\ InRollback
  /\ pc = "rb_done"
  /\ Cardinality(FailedTerminates) = RollbackSteps
  /\ ret.rollback = "error"

\* C32: after status assembly the current flag of a registry entry is true
\* exactly when this invocation launched the instance, and false on every
\* entry discovery added; the nodes Join hands over as added are exactly the
\* instances that Join launched, masters as masters and workers as workers.
C32_CurrentIsLaunched ==
  syn.pc = "done" =>
    /\ \A id \in DOMAIN syn.m : syn.m[id].Current <=> id \in syn.launched
    /\ syn.op = "join" =>
         /\ JoinAdded(syn.m).MasterNodes = {id \in syn.launched : syn.first[id]}
         /\ JoinAdded(syn.m).WorkerNodes = {id \in syn.launched : ~syn.first[id]}

C32_Witness ==
  /\ syn.pc = "done"
  /\ syn.op = "join"
  /\ JoinAdded(syn.m).WorkerNodes # {}
  /\ \E id \in DOMAIN syn.m : ~syn.m[id].Current /\ ~syn.m[id].Master /\ id \notin syn.launched

\* The ids Delete passed to a disassociate or release call.
DeleteCompensated ==
  UNION {calls[i].ids : i \in CallsOf("DisassociateAddress") \cup CallsOf("ReleaseAddresses")}

\* C33: every id Delete passes to a disassociate or release call is the
\* non-empty id of a tagged resource whose service type and resource prefix
\* are both those of a floating IP; the id of a tagged resource of another
\* kind, such as a tagged instance, is never passed.
C33_OnlyFloatingIps ==
  cfg.op = "delete" =>
    /\ \A x \in DeleteCompensated :
         /\ x # 0
         /\ \E k \in 1..Len(loc.rows) :
              /\ loc.rows[k].ResourceId = x
              /\ EqualFold(loc.rows[k].ServiceType, ServiceTypeEIP)
              /\ EqualFold(loc.rows[k].ResourcePrefix, ResourcePrefixEIP)
    /\ \A k \in 1..Len(loc.rows) :
         ~EqualFold(loc.rows[k].ResourcePrefix, ResourcePrefixEIP) =>
           loc.rows[k].ResourceId \notin DeleteCompensated

C33_Witness ==
  /\ cfg.op = "delete"
  /\ pc = "del_done"
  /\ \E i \in CallsOf("ReleaseAddresses") : calls[i].ids # {}
  /\ \E k \in 1..Len(loc.rows) : ~EqualFold(loc.rows[k].ResourcePrefix, ResourcePrefixEIP)
  /\ \E k \in 1..Len(loc.rows) : loc.rows[k].ResourcePrefix = <<"E", "I", "P">>

\* A poll that hit a provider API error or, in the instance wait, got an
\* empty status set.
ErrorPoll(answer) ==
  answer.err \/ ("InstanceStatusSet" \in DOMAIN answer /\ answer.InstanceStatusSet = <<>>)

\* A poll whose answer ends the wait with success.
SuccessPoll(answer) ==
  /\ ~answer.err
  /\ IF "Result" \in DOMAIN answer
     THEN ToUpper(answer.Result) = Success
     ELSE /\ answer.InstanceStatusSet # <<>>
          /\ \A i \in 1..Len(answer.InstanceStatusSet) :
               answer.InstanceStatusSet[i].InstanceState = "RUNNING"

\* C34: in the task wait and in the instance wait a poll that hit an API
\* error (or an empty status set) is retried: when every poll is such a poll
\* the wait makes exactly MaxAttempts polls and times out, and when such
\* polls are followed by a successful poll the wait succeeds at that poll.
C34_ErrorPollIsRetried ==
  taskPc \in {"returned", "status_returned"} =>
    /\ (\A k \in 1..MaxAttempts : ErrorPoll(taskScript[k])) =>
         taskCalls = MaxAttempts /\ taskResult = "timeout"
    /\ \A k \in 2..MaxAttempts :
         ((\A j \in 1..(k - 1) : ErrorPoll(taskScript[j])) /\ SuccessPoll(taskScript[k])) =>
           taskCalls = k /\ taskResult = "ok"

C34_Witness ==
  /\ taskPc = "status_returned"
  /\ taskScript[1].err
  /\ taskScript[2] = [err |-> FALSE, InstanceStatusSet |-> <<>>]
  /\ SuccessPoll(taskScript[3])
  /\ taskResult = "ok"
  /\ taskCalls = 3

\* C35: once an AssociateAddress call of the pairing has failed, Create does
\* not go on: no later allocation, task wait or assembly call is issued and
\* Create does not return success.
C35_AssociateFailureFailsCreate ==
  InGenerateInstance =>
    \A i \in CallsOf("AssociateAddress") :
      calls[i].res = "err" =>
        /\ pc \notin {"eip_tasks", "gi_assemble", "post", "done"}
        /\ ret.create # "ok"
        /\ \A j \in (i + 1)..Len(calls) :
             calls[j].op \notin {"AllocateAddresses", "DescribeTaskResult", "DescribeInstances"}

\* C36: after a Create or Join with floating addresses has failed and its
\* Rollback has returned success, no floating address the Create allocated is
\* still allocated, whether it was associated with an instance or not.
C36_RollbackReleasesAllocated ==
  (/\ cfg.op \in {"create", "join"}
   /\ cfg.eip
   /\ pc = "rb_done"
   /\ ret.rollback = "ok") =>
    hist.allocated \cap DOMAIN cloudEip = {}

\* C37: a forced Delete that returned success leaves no tagged floating
\* address allocated, also when the cluster had no tagged instance.
C37_ForcedDeleteReleasesAddresses ==
  (cfg.op = "delete" /\ cfg.force /\ pc = "del_done" /\ ret.delete = "ok") =>
    DOMAIN cloudEip = {}

\* C38: in Delete and in Rollback every task wait is on a task id that an
\* earlier successful disassociate or release call returned (never on the
\* zero task id), and no release call is issued with an empty address list.
C38_WaitsOnlyOnReturnedTasks ==
  (cfg.op = "delete" \/ InRollback) =>
    /\ \A i \in CallsOf("DescribeTaskResult") :
         /\ calls[i].task # 0
         /\ \E j \in 1..(i - 1) :
              /\ calls[j].op \in {"DisassociateAddress", "ReleaseAddresses"}
              /\ calls[j].res = "ok"
              /\ calls[j].task = calls[i].task
    /\ \A i \in CallsOf("ReleaseAddresses") : calls[i].ids # {}

\* The requests it takes to list total instances: one for each page of
\* PageLimit instances, and one when there is none.
PagesOf(total) ==
  IF total = 0 THEN 1 ELSE (total + PageLimit - 1) \div PageLimit

\* C39: the tag-based listing of T instances never makes more than
\* ceil(T / 20) requests (one when T is 0); when it returns a list, the list
\* holds each of the T instances exactly once and took exactly that many
\* requests; when a request fails it returns the error and no list.
C39_PagedListing ==
  /\ pager.pc \in {"request", "returned"} => pager.requests <= PagesOf(pager.TotalCount)
  /\ (pager.pc = "returned" /\ pager.result = "ok") =>
       /\ pager.requests = PagesOf(pager.TotalCount)
       /\ Len(pager.instanceList) = pager.TotalCount
       /\ \A id \in 1..pager.TotalCount :
            Cardinality({k \in 1..Len(pager.instanceList) : pager.instanceList[k] = id}) = 1
  /\ (pager.pc = "returned" /\ pager.result = "error") => pager.instanceList = <<>>

C39_Witness ==
  /\ pager.pc = "returned"
  /\ pager.result = "ok"
  /\ pager.TotalCount > PageLimit + PageLimit
  /\ pager.requests = 3
  /\ Len(pager.instanceList) = pager.TotalCount

\* The positions of a node list that hold the instance id.
PlacesOf(list, id) == {k \in 1..Len(list) : list[k].InstanceID = id}

NoIdTwice(list) ==
  \A k \in 1..Len(list) : Cardinality(PlacesOf(list, list[k].InstanceID)) = 1

NoIdInBothLists ==
  \A k \in 1..Len(syn.lists.MasterNodes) :
    PlacesOf(syn.lists.WorkerNodes, syn.lists.MasterNodes[k].InstanceID) = {}

EveryEntryListedByRole ==
  \A id \in DOMAIN syn.m :
    PlacesOf(IF syn.m[id].Master THEN syn.lists.MasterNodes ELSE syn.lists.WorkerNodes, id) # {}

\* C40: after an assembly or a cluster sync no instance id is twice in the
\* master list or twice in the worker list, none is in both lists, and every
\* registry entry is in the list of its role.
C40_ListsConsistent ==
  syn.pc \in {"done", "synced"} =>
    /\ NoIdTwice(syn.lists.MasterNodes)
    /\ NoIdTwice(syn.lists.WorkerNodes)
    /\ NoIdInBothLists
    /\ EveryEntryListedByRole

====
